---- MODULE Spec2Model ----
(***************************************************************************)
(* Merlin slide generator: the LaTeX-Lite front end (Tokenizer, Parser)    *)
(* and the IR schema validator (Zod schemas, validateSlideDeck).           *)
(*                                                                         *)
(* Source text and every string value of the IR are sequences of           *)
(* one-character strings.  IR / JSON values are tagged records (JStr,      *)
(* JNum, JNull, JArr, JObj) so that a field of the wrong type can be       *)
(* told from a field of the right one.                                     *)
(***************************************************************************)
EXTENDS Integers, Sequences, FiniteSets, TLC

VARIABLES
    typed,        \* the fragments of the source text, in order
    parsed,       \* NotParsed, or what parseLatexLite(source) returned or threw
    candidate,    \* the JSON value to validate
    validated,    \* NotValidated, or what validateSlideDeck(candidate) returned or threw
    revalidated,  \* NotValidated, or the validation of the serialized result
    history,      \* the calls of parseLatexLite so far: input and outcome
    tokenizer,    \* a Tokenizer inside tokenize(): input, cursor, tokens, returned
    slideDeck,    \* App state: the deck handed to the renderer, or JNull
    error,        \* App state: the error text shown, or NoError
    isLoading,    \* App state
    isPasteModalOpen, \* App state
    pasteContent, \* App state: the text of the paste modal's textarea
    upload,       \* NoUpload, or the file whose text handleFileUpload awaits
    currentSlideIndex, \* SlideRenderer state
    isPresenterMode,   \* SlideRenderer state
    isDarkMode         \* SlideRenderer state

(***************************************************************************)
(* Characters and JavaScript string helpers                                *)
(***************************************************************************)
LowerCaseLetters ==
    <<"a","b","c","d","e","f","g","h","i","j","k","l","m",
      "n","o","p","q","r","s","t","u","v","w","x","y","z">>

UpperCaseLetters ==
    <<"A","B","C","D","E","F","G","H","I","J","K","L","M",
      "N","O","P","Q","R","S","T","U","V","W","X","Y","Z">>

Digits == {"0","1","2","3","4","5","6","7","8","9"}

Range(s) == { s[i] : i \in 1..Len(s) }

\* /[a-zA-Z]/.test(char)
IsLetter(c) == c \in Range(LowerCaseLetters) \cup Range(UpperCaseLetters)

\* the characters String.prototype.trim removes and /\s/ matches
JsWhiteSpace == {" ", "\t", "\n", "\r", "\f"}

RECURSIVE TrimStart(_)
TrimStart(s) ==
    IF s # <<>> /\ Head(s) \in JsWhiteSpace THEN TrimStart(Tail(s)) ELSE s

RECURSIVE TrimEnd(_)
TrimEnd(s) ==
    IF s # <<>> /\ s[Len(s)] \in JsWhiteSpace
    THEN TrimEnd(SubSeq(s, 1, Len(s) - 1)) ELSE s

\* String.prototype.trim
Trim(s) == TrimEnd(TrimStart(s))

RECURSIVE Flatten(_)
Flatten(ss) == IF ss = <<>> THEN <<>> ELSE Head(ss) \o Flatten(Tail(ss))

(***************************************************************************)
(* IR / JSON values                                                        *)
(***************************************************************************)
JStr(s) == [kind |-> "string", str |-> s]
JNum(n) == [kind |-> "number", num |-> n]
JNull == [kind |-> "null"]
JArr(a) == [kind |-> "array", items |-> a]
JObj(o) == [kind |-> "object", props |-> o]

IsStr(v) == v.kind = "string"
IsArr(v) == v.kind = "array"
IsObj(v) == v.kind = "object"
HasKey(v, k) == IsObj(v) /\ k \in DOMAIN v.props

(***************************************************************************)
(* Tokenizer                                                               *)
(***************************************************************************)
TokenType ==
    {"COMMAND", "LBRACE", "RBRACE", "LBRACKET", "RBRACKET", "TEXT",
     "NEWLINE", "EOF"}

Token(type, value, line, column) ==
    [type |-> type, value |-> value, line |-> line, column |-> column]

\* a cursor whose line goes on from one parseLatexLite call to the next
TokenizerInit_SharedLine == [pos |-> 0, line |-> 1 + Len(history), column |-> 1]

\* the cursor of a new Tokenizer: pos = 0, line = 1, column = 1
TokenizerInit == [pos |-> 0, line |-> 1, column |-> 1]

\* this.input[this.pos] || ''
Tokenizer_peek(input, t) ==
    IF t.pos < Len(input) THEN input[t.pos + 1] ELSE ""

\* a line break that does not reset the column
Tokenizer_advance_NoColumnReset(input, t) ==
    IF Tokenizer_peek(input, t) = "\n"
    THEN [pos |-> t.pos + 1, line |-> t.line + 1, column |-> t.column + 1]
    ELSE [pos |-> t.pos + 1, line |-> t.line, column |-> t.column + 1]

Tokenizer_advance(input, t) ==
    IF Tokenizer_peek(input, t) = "\n"
    THEN [pos |-> t.pos + 1, line |-> t.line + 1, column |-> 1]
    ELSE [pos |-> t.pos + 1, line |-> t.line, column |-> t.column + 1]

RECURSIVE skipWhitespace(_, _)
skipWhitespace(input, t) ==
    IF t.pos < Len(input) /\ Tokenizer_peek(input, t) \in {" ", "\t", "\r"}
    THEN skipWhitespace(input, Tokenizer_advance(input, t))
    ELSE t

RECURSIVE readCommandLoop(_, _, _)
readCommandLoop(input, t, cmd) ==
    IF t.pos < Len(input) /\ IsLetter(Tokenizer_peek(input, t))
    THEN readCommandLoop(input, Tokenizer_advance(input, t),
                         Append(cmd, Tokenizer_peek(input, t)))
    ELSE [t |-> t, value |-> cmd]

\* a command read that leaves the backslash where it is
readCommand_KeepsBackslash(input, t) == readCommandLoop(input, t, <<>>)

\* skips the backslash, then reads a maximal run of letters
readCommand(input, t) ==
    readCommandLoop(input, Tokenizer_advance(input, t), <<>>)

TextStop == {"\\", "{", "}", "[", "]", "\n"}

RECURSIVE readTextLoop(_, _, _)
readTextLoop(input, t, text) ==
    IF t.pos < Len(input) /\ Tokenizer_peek(input, t) \notin TextStop
    THEN readTextLoop(input, Tokenizer_advance(input, t),
                      Append(text, Tokenizer_peek(input, t)))
    ELSE [t |-> t, value |-> Trim(text)]

readText(input, t) == readTextLoop(input, t, <<>>)

\* every single-character token taken for an opening brace
SingleCharToken_AllBrace(c) == "LBRACE"

SingleCharToken(c) ==
    CASE c = "{" -> "LBRACE"
      [] c = "}" -> "RBRACE"
      [] c = "[" -> "LBRACKET"
      [] c = "]" -> "RBRACKET"
      [] c = "\n" -> "NEWLINE"

RECURSIVE tokenizeLoop(_, _, _)
tokenizeLoop(input, t0, tokens) ==
    IF ~(t0.pos < Len(input))
    THEN Append(tokens, Token("EOF", <<>>, t0.line, t0.column))
    ELSE
      LET t == skipWhitespace(input, t0) IN
      IF t.pos >= Len(input)
      THEN Append(tokens, Token("EOF", <<>>, t.line, t.column))
      ELSE
        LET char == Tokenizer_peek(input, t)
            line == t.line
            column == t.column
        IN
        IF char = "\\"
        THEN LET r == readCommand(input, t) IN
             tokenizeLoop(input, r.t,
                          Append(tokens, Token("COMMAND", r.value, line, column)))
        ELSE IF char \in {"{", "}", "[", "]", "\n"}
        THEN tokenizeLoop(input, Tokenizer_advance(input, t),
                          Append(tokens,
                                 Token(SingleCharToken(char), <<char>>, line, column)))
        ELSE LET r == readText(input, t) IN
             tokenizeLoop(input, r.t,
                          IF r.value # <<>>
                          THEN Append(tokens, Token("TEXT", r.value, line, column))
                          ELSE tokens)

tokenize(input) == tokenizeLoop(input, TokenizerInit, <<>>)

(***************************************************************************)
(* String literals of the program, as character sequences                  *)
(***************************************************************************)
S_slide == <<"s","l","i","d","e">>
S_title == <<"t","i","t","l","e">>
S_definition == <<"d","e","f","i","n","i","t","i","o","n">>
S_theorem == <<"t","h","e","o","r","e","m">>
S_proof == <<"p","r","o","o","f">>
S_equation == <<"e","q","u","a","t","i","o","n">>
S_figure == <<"f","i","g","u","r","e">>
S_algorithm == <<"a","l","g","o","r","i","t","h","m">>
S_note == <<"n","o","t","e">>
S_text == <<"t","e","x","t">>
S_none == <<"n","o","n","e">>
S_reveal == <<"r","e","v","e","a","l">>
S_highlight == <<"h","i","g","h","l","i","g","h","t">>
S_animateEq == <<"a","n","i","m","a","t","e","=">>
S_UntitledDeck == <<"U","n","t","i","t","l","e","d"," ","D","e","c","k">>
S_slideDash == <<"s","l","i","d","e","-">>

(***************************************************************************)
(* Parser                                                                  *)
(***************************************************************************)
\* new ParserError(message, line, column); the message is kept as the
\* template's constant parts around the interpolated token value
ParserError(prefix, value, suffix, line, column) ==
    [name |-> "ParserError",
     message |-> [prefix |-> prefix, value |-> value, suffix |-> suffix],
     line |-> line, column |-> column]

\* a method's normal return (with the cursor it leaves) and its throw
Return(pos, value) == [ok |-> TRUE, pos |-> pos, value |-> value]
Throw(err) == [ok |-> FALSE, error |-> err]

\* this.tokens[this.pos] || this.tokens[this.tokens.length - 1]
current(tokens, pos) ==
    IF pos < Len(tokens) THEN tokens[pos + 1] ELSE tokens[Len(tokens)]

Parser_advance(tokens, pos) == Return(pos + 1, current(tokens, pos))

expect(tokens, pos, type) ==
    LET token == current(tokens, pos) IN
    IF token.type # type
    THEN Throw(ParserError("Expected " \o type \o ", got " \o token.type,
                           <<>>, "", token.line, token.column))
    ELSE Parser_advance(tokens, pos)

RECURSIVE readBraceContentLoop(_, _, _, _)
readBraceContentLoop(tokens, pos, depth, content) ==
    LET token == current(tokens, pos) IN
    IF ~(depth > 0 /\ token.type # "EOF")
    THEN Return(pos, Trim(content))
    ELSE IF token.type = "LBRACE"
    THEN readBraceContentLoop(tokens, pos + 1, depth + 1, content \o <<"{">>)
    ELSE IF token.type = "RBRACE"
    THEN readBraceContentLoop(tokens, pos + 1, depth - 1,
                              IF depth - 1 > 0 THEN content \o <<"}">> ELSE content)
    ELSE readBraceContentLoop(tokens, pos + 1, depth, content \o token.value)

readBraceContent(tokens, pos) ==
    LET e == expect(tokens, pos, "LBRACE") IN
    IF ~e.ok THEN e ELSE readBraceContentLoop(tokens, e.pos, 1, <<>>)

RECURSIVE readBracketContentLoop(_, _, _)
readBracketContentLoop(tokens, pos, content) ==
    LET token == current(tokens, pos) IN
    IF token.type # "RBRACKET" /\ token.type # "EOF"
    THEN readBracketContentLoop(tokens, pos + 1, content \o token.value)
    ELSE LET e == expect(tokens, pos, "RBRACKET") IN
         IF ~e.ok THEN e ELSE Return(e.pos, Trim(content))

readBracketContent(tokens, pos) ==
    LET e == expect(tokens, pos, "LBRACKET") IN
    IF ~e.ok THEN e ELSE readBracketContentLoop(tokens, e.pos, <<>>)

\* the two-brace-group constructors: { type, title, body }
TitleBodyNode(type, tokens, pos) ==
    LET title == readBraceContent(tokens, pos) IN
    IF ~title.ok THEN title ELSE
    LET body == readBraceContent(tokens, title.pos) IN
    IF ~body.ok THEN body ELSE
    Return(body.pos,
           JObj([type |-> JStr(type), title |-> JStr(title.value),
                 body |-> JStr(body.value)]))

parseDefinition(tokens, pos) == TitleBodyNode(S_definition, tokens, pos)

parseTheorem(tokens, pos) == TitleBodyNode(S_theorem, tokens, pos)

parseProof(tokens, pos) ==
    LET body == readBraceContent(tokens, pos) IN
    IF ~body.ok THEN body ELSE
    Return(body.pos, JObj([type |-> JStr(S_proof), body |-> JStr(body.value)]))

AnimationModes == <<S_none, S_reveal, S_highlight>>

IsPrefixAt(s, i, p) ==
    i + Len(p) - 1 <= Len(s) /\ SubSeq(s, i, i + Len(p) - 1) = p

\* a match that never finds the parameter
MatchAnimate_Never(params) == <<>>
MatchAnimate_AnyValue(params) ==
    IF IsPrefixAt(params, 1, S_animateEq)
    THEN SubSeq(params, Len(S_animateEq) + 1, Len(params)) ELSE <<>>

\* params.match(/animate=(none|reveal|highlight)/): the capture group of the
\* leftmost match, or <<>> (null) when there is none
MatchAnimate(params) ==
    LET hits == { i \in 1..Len(params) :
                    \E m \in 1..Len(AnimationModes) :
                       IsPrefixAt(params, i, S_animateEq \o AnimationModes[m]) }
    IN IF hits = {} THEN <<>>
       ELSE LET i == CHOOSE h \in hits : \A g \in hits : h <= g
                m == CHOOSE k \in 1..Len(AnimationModes) :
                        IsPrefixAt(params, i, S_animateEq \o AnimationModes[k])
            IN AnimationModes[m]

parseEquation(tokens, pos) ==
    LET hasParams == current(tokens, pos).type = "LBRACKET"
        params == IF hasParams THEN readBracketContent(tokens, pos)
                  ELSE Return(pos, <<>>)
    IN
    IF ~params.ok THEN params ELSE
    LET match == IF hasParams THEN MatchAnimate(params.value) ELSE <<>>
        animate == IF match # <<>> THEN match ELSE S_none
        latex == readBraceContent(tokens, params.pos)
    IN
    IF ~latex.ok THEN latex ELSE
    Return(latex.pos,
           JObj([type |-> JStr(S_equation), latex |-> JStr(latex.value),
                 animate |-> JStr(animate)]))

parseFigure(tokens, pos) ==
    LET ref == readBraceContent(tokens, pos) IN
    IF ~ref.ok THEN ref ELSE
    Return(ref.pos, JObj([type |-> JStr(S_figure), ref |-> JStr(ref.value)]))

\* String.prototype.split(sep) for a one-character separator
RECURSIVE SplitLoop(_, _, _, _)
SplitLoop(s, sep, piece, out) ==
    IF s = <<>> THEN Append(out, piece)
    ELSE IF Head(s) = sep THEN SplitLoop(Tail(s), sep, <<>>, Append(out, piece))
    ELSE SplitLoop(Tail(s), sep, Append(piece, Head(s)), out)

Split(s, sep) == SplitLoop(s, sep, <<>>, <<>>)

parseAlgorithm(tokens, pos) ==
    LET name == readBraceContent(tokens, pos) IN
    IF ~name.ok THEN name ELSE
    LET stepsContent == readBraceContent(tokens, name.pos) IN
    IF ~stepsContent.ok THEN stepsContent ELSE
    LET pieces == Split(stepsContent.value, ",")
        trimmed == [i \in 1..Len(pieces) |-> Trim(pieces[i])]
        steps == SelectSeq(trimmed, LAMBDA s : Len(s) > 0)
    IN
    Return(stepsContent.pos,
           JObj([type |-> JStr(S_algorithm), name |-> JStr(name.value),
                 steps |-> JArr([i \in 1..Len(steps) |-> JStr(steps[i])])]))

parseNote(tokens, pos) ==
    LET body == readBraceContent(tokens, pos) IN
    IF ~body.ok THEN body ELSE
    Return(body.pos, JObj([type |-> JStr(S_note), body |-> JStr(body.value)]))

\* the switch of parseContent over the command name
ContentCommand(name, tokens, pos, token) ==
    CASE name = S_definition -> parseDefinition(tokens, pos)
      [] name = S_theorem -> parseTheorem(tokens, pos)
      [] name = S_proof -> parseProof(tokens, pos)
      [] name = S_equation -> parseEquation(tokens, pos)
      [] name = S_figure -> parseFigure(tokens, pos)
      [] name = S_algorithm -> parseAlgorithm(tokens, pos)
      [] name = S_note -> parseNote(tokens, pos)
      [] OTHER -> Throw(ParserError("Unknown command: \\", name, "",
                                    token.line, token.column))

RECURSIVE parseContentLoop(_, _, _)
parseContentLoop(tokens, pos, nodes) ==
    LET token == current(tokens, pos) IN
    IF token.type = "EOF" THEN Return(pos, nodes)
    ELSE IF token.type = "COMMAND"
    THEN LET push(node) ==
                IF ~node.ok THEN node
                ELSE parseContentLoop(tokens, node.pos, Append(nodes, node.value))
         IN push(ContentCommand(token.value, tokens, pos + 1, token))
    ELSE IF token.type = "TEXT"
    THEN parseContentLoop(tokens, pos + 1,
                          IF Trim(token.value) # <<>>
                          THEN Append(nodes,
                                      JObj([type |-> JStr(S_text),
                                            content |-> JStr(token.value)]))
                          ELSE nodes)
    ELSE parseContentLoop(tokens, pos + 1, nodes)

parseContent(tokens) == parseContentLoop(tokens, 0, <<>>)

\* String.prototype.toLowerCase, on the ASCII letters
ToLowerCase(s) ==
    [i \in 1..Len(s) |->
        IF s[i] \in Range(UpperCaseLetters)
        THEN LowerCaseLetters[CHOOSE k \in 1..26 : UpperCaseLetters[k] = s[i]]
        ELSE s[i]]

\* .replace(/\s+/g, '-')
RECURSIVE ReplaceWhitespaceRuns(_, _)
ReplaceWhitespaceRuns(s, inRun) ==
    IF s = <<>> THEN <<>>
    ELSE IF Head(s) \in JsWhiteSpace
    THEN (IF inRun THEN <<>> ELSE <<"-">>) \o ReplaceWhitespaceRuns(Tail(s), TRUE)
    ELSE <<Head(s)>> \o ReplaceWhitespaceRuns(Tail(s), FALSE)

\* a replace that removes nothing
StripNonIdChars_KeepsAll(s) == s

\* .replace(/[^a-z0-9-]/g, '')
StripNonIdChars(s) ==
    SelectSeq(s, LAMBDA c : c \in Range(LowerCaseLetters) \cup Digits \cup {"-"})

SlideId(title) ==
    S_slideDash \o StripNonIdChars(ReplaceWhitespaceRuns(ToLowerCase(title), FALSE))

\* a slide read that hands the cursor back after the title group
parseSlide_ResumesAfterTitle(tokens, pos) ==
    LET title == readBraceContent(tokens, pos) IN
    IF ~title.ok THEN title ELSE
    Return(title.pos,
           JObj([type |-> JStr(S_slide), id |-> JStr(SlideId(title.value)),
                 title |-> JStr(title.value), content |-> JArr(<<>>)]))

parseSlide(tokens, pos) ==
    LET title == readBraceContent(tokens, pos) IN
    IF ~title.ok THEN title ELSE
    LET contentBlock == readBraceContent(tokens, title.pos) IN
    IF ~contentBlock.ok THEN contentBlock ELSE
    LET slide(content) ==
           IF ~content.ok THEN content ELSE
           Return(contentBlock.pos,
                  JObj([type |-> JStr(S_slide), id |-> JStr(SlideId(title.value)),
                        title |-> JStr(title.value),
                        content |-> JArr(content.value)]))
    IN slide(parseContent(tokenize(contentBlock.value)))

RECURSIVE parseLoop(_, _, _, _)
parseLoop(tokens, pos, slides, deckTitle) ==
    LET token == current(tokens, pos) IN
    IF token.type = "EOF"
    THEN Return(pos, JObj([meta |-> JObj([title |-> JStr(deckTitle)]),
                           slides |-> JArr(slides)]))
    ELSE IF token.type = "COMMAND"
    THEN IF token.value = S_slide
         THEN LET push(slide) ==
                     IF ~slide.ok THEN slide
                     ELSE parseLoop(tokens, slide.pos, Append(slides, slide.value),
                                    deckTitle)
              IN push(parseSlide(tokens, pos + 1))
         ELSE IF token.value = S_title
         THEN LET title == readBraceContent(tokens, pos + 1) IN
              IF ~title.ok THEN title
              ELSE parseLoop(tokens, title.pos, slides, title.value)
         ELSE Throw(ParserError("Unexpected command at top level: \\", token.value,
                                ". Only \\slide and \\title are allowed.",
                                token.line, token.column))
    ELSE IF token.type = "NEWLINE"
    THEN parseLoop(tokens, pos + 1, slides, deckTitle)
    ELSE Throw(ParserError("Unexpected token at top level: " \o token.type,
                           <<>>, "", token.line, token.column))

parse(tokens) == parseLoop(tokens, 0, <<>>, S_UntitledDeck)

\* a deck, or the ParserError thrown
parseLatexLite(input) ==
    LET outcome(r) ==
           IF r.ok THEN [ok |-> TRUE, value |-> r.value]
           ELSE [ok |-> FALSE, error |-> r.error]
    IN outcome(parse(tokenize(input)))

(***************************************************************************)
(* Zod schemas (zod 3: safeParse of z.string, z.literal, z.enum,           *)
(* .optional(), z.array, z.object in its default "strip" mode and          *)
(* z.discriminatedUnion)                                                   *)
(***************************************************************************)
\* the value of a key the candidate does not have
JUndefined == [kind |-> "undefined"]

\* issue.path segments: object keys and array indices
Key(k) == [key |-> k]
Idx(i) == [index |-> i]

ZString == [z |-> "string"]
ZLiteral(v) == [z |-> "literal", value |-> v]
ZEnum(vs) == [z |-> "enum", values |-> vs]
ZOptional(inner) == [z |-> "optional", inner |-> inner]
ZArray(element) == [z |-> "array", element |-> element]
ZObject(keys, shape) == [z |-> "object", keys |-> keys, shape |-> shape]
ZDiscriminatedUnion(discriminator, options) ==
    [z |-> "discriminatedUnion", discriminator |-> discriminator,
     options |-> options]

Issue(code, path, message, received) ==
    [code |-> code, path |-> path, message |-> message, received |-> received]

\* zod's default error map for invalid_type
InvalidType(expected, data, path) ==
    Issue("invalid_type", path,
          IF data.kind = "undefined" THEN "Required"
          ELSE "Expected " \o expected \o ", received " \o data.kind,
          data.kind)

ZValid(value) == [success |-> TRUE, issues |-> <<>>, data |-> value]
ZInvalid(issues) == [success |-> FALSE, issues |-> issues, data |-> JUndefined]

Get(data, k) == IF k \in DOMAIN data.props THEN data.props[k] ELSE JUndefined

RECURSIVE ZParse(_, _, _)
RECURSIVE ZParseKeys(_, _, _, _)
RECURSIVE ZParseItems(_, _, _, _)

\* the shape's keys from the i-th on, each parsed at path + [key]; a key is
\* set in the output when the candidate has it; keys outside the shape are
\* neither reported nor copied
ZParseKeys(schema, data, path, i) ==
    IF i > Len(schema.keys) THEN ZValid(<<>>)
    ELSE LET k == schema.keys[i]
             head == ZParse(schema.shape[k], Get(data, k), Append(path, Key(k)))
             rest == ZParseKeys(schema, data, path, i + 1)
         IN [success |-> head.success /\ rest.success,
             issues |-> head.issues \o rest.issues,
             data |-> IF head.success /\ rest.success
                      THEN (IF k \in DOMAIN data.props
                            THEN (k :> head.data) @@ rest.data
                            ELSE rest.data)
                      ELSE <<>>]

\* the array's items from the i-th on, each parsed at path + [i - 1]
ZParseItems(schema, data, path, i) ==
    IF i > Len(data.items) THEN ZValid(<<>>)
    ELSE LET head == ZParse(schema.element, data.items[i], Append(path, Idx(i - 1)))
             rest == ZParseItems(schema, data, path, i + 1)
         IN [success |-> head.success /\ rest.success,
             issues |-> head.issues \o rest.issues,
             data |-> IF head.success /\ rest.success
                      THEN <<head.data>> \o rest.data ELSE <<>>]

ZParse(schema, data, path) ==
    CASE schema.z = "string" ->
           IF data.kind = "string" THEN ZValid(data)
           ELSE ZInvalid(<<InvalidType("string", data, path)>>)
      [] schema.z = "literal" ->
           IF data = JStr(schema.value) THEN ZValid(data)
           ELSE ZInvalid(<<Issue("invalid_literal", path,
                                 "Invalid literal value", data.kind)>>)
      [] schema.z = "enum" ->
           IF data.kind # "string"
           THEN ZInvalid(<<InvalidType("enum", data, path)>>)
           ELSE IF data.str \in Range(schema.values) THEN ZValid(data)
           ELSE ZInvalid(<<Issue("invalid_enum_value", path,
                                 "Invalid enum value", data.kind)>>)
      [] schema.z = "optional" ->
           IF data.kind = "undefined" THEN ZValid(data)
           ELSE ZParse(schema.inner, data, path)
      [] schema.z = "array" ->
           IF data.kind # "array"
           THEN ZInvalid(<<InvalidType("array", data, path)>>)
           ELSE LET r == ZParseItems(schema, data, path, 1) IN
                IF r.success THEN ZValid(JArr(r.data)) ELSE ZInvalid(r.issues)
      [] schema.z = "object" ->
           IF data.kind # "object"
           THEN ZInvalid(<<InvalidType("object", data, path)>>)
           ELSE LET r == ZParseKeys(schema, data, path, 1) IN
                IF r.success THEN ZValid(JObj(r.data)) ELSE ZInvalid(r.issues)
      [] schema.z = "discriminatedUnion" ->
           IF data.kind # "object"
           THEN ZInvalid(<<InvalidType("object", data, path)>>)
           ELSE LET d == Get(data, schema.discriminator)
                    hits == { o \in 1..Len(schema.options) :
                                JStr(schema.options[o].shape[schema.discriminator].value) = d }
                IN IF hits = {}
                   THEN ZInvalid(<<Issue("invalid_union_discriminator",
                                         Append(path, Key(schema.discriminator)),
                                         "Invalid discriminator value", d.kind)>>)
                   ELSE ZParse(schema.options[CHOOSE o \in hits : TRUE], data, path)

(***************************************************************************)
(* IR schema validator                                                     *)
(***************************************************************************)
animationModeSchema == ZEnum(<<S_none, S_reveal, S_highlight>>)

definitionNodeSchema ==
    ZObject(<<"type", "title", "body">>,
            [type |-> ZLiteral(S_definition), title |-> ZString, body |-> ZString])

theoremNodeSchema ==
    ZObject(<<"type", "title", "body">>,
            [type |-> ZLiteral(S_theorem), title |-> ZString, body |-> ZString])

proofNodeSchema ==
    ZObject(<<"type", "body">>, [type |-> ZLiteral(S_proof), body |-> ZString])

equationNodeSchema ==
    ZObject(<<"type", "latex", "animate">>,
            [type |-> ZLiteral(S_equation), latex |-> ZString,
             animate |-> ZOptional(animationModeSchema)])

figureNodeSchema ==
    ZObject(<<"type", "ref", "alt", "caption">>,
            [type |-> ZLiteral(S_figure), ref |-> ZString,
             alt |-> ZOptional(ZString), caption |-> ZOptional(ZString)])

\* an algorithm schema that leaves steps out
algorithmNodeSchema_NoSteps ==
    ZObject(<<"type", "name">>,
            [type |-> ZLiteral(S_algorithm), name |-> ZString])

algorithmNodeSchema ==
    ZObject(<<"type", "name", "steps">>,
            [type |-> ZLiteral(S_algorithm), name |-> ZString,
             steps |-> ZArray(ZString)])

presenterNoteNodeSchema ==
    ZObject(<<"type", "body">>, [type |-> ZLiteral(S_note), body |-> ZString])

textNodeSchema ==
    ZObject(<<"type", "content">>, [type |-> ZLiteral(S_text), content |-> ZString])

\* a content schema that checks the type with an enum instead of
\* dispatching on it
contentNodeSchema_EnumType ==
    ZObject(<<"type">>,
            [type |-> ZEnum(<<S_definition, S_theorem, S_proof, S_equation,
                              S_figure, S_algorithm, S_note, S_text>>)])

contentNodeSchema ==
    ZDiscriminatedUnion("type",
        <<definitionNodeSchema, theoremNodeSchema, proofNodeSchema,
          equationNodeSchema, figureNodeSchema, algorithmNodeSchema,
          presenterNoteNodeSchema, textNodeSchema>>)

slideNodeSchema ==
    ZObject(<<"type", "id", "title", "content">>,
            [type |-> ZLiteral(S_slide), id |-> ZString, title |-> ZString,
             content |-> ZArray(contentNodeSchema)])

slideDeckSchema ==
    ZObject(<<"meta", "slides">>,
            [meta |-> ZObject(<<"title", "author", "date">>,
                              [title |-> ZString, author |-> ZOptional(ZString),
                               date |-> ZOptional(ZString)]),
             slides |-> ZArray(slideNodeSchema)])

\* new ValidationError(message, issues); the message lists, per issue, the
\* path and the issue's message
ValidationError(header, issues) ==
    [name |-> "ValidationError",
     message |-> [header |-> header,
                  errors |-> [i \in 1..Len(issues) |->
                                [path |-> issues[i].path,
                                 message |-> issues[i].message]]],
     issues |-> issues]

\* a validator that reports the first issue only
validateSlideDeck_FirstIssueOnly(data) ==
    LET result == ZParse(slideDeckSchema, data, <<>>) IN
    IF ~result.success
    THEN [ok |-> FALSE,
          error |-> ValidationError("Slide deck validation failed:",
                                    <<result.issues[1]>>)]
    ELSE [ok |-> TRUE, value |-> result.data]

\* a validator that gives every slide id the parser's "slide-" prefix
validateSlideDeck_PrefixIds(data) ==
    LET result == ZParse(slideDeckSchema, data, <<>>) IN
    IF ~result.success
    THEN [ok |-> FALSE,
          error |-> ValidationError("Slide deck validation failed:", result.issues)]
    ELSE [ok |-> TRUE,
          value |->
            JObj([result.data.props EXCEPT !.slides =
               JArr([i \in 1..Len(@.items) |->
                  JObj([@.items[i].props EXCEPT !.id = JStr(S_slideDash \o @.str)])])])]

\* the validated deck, or the ValidationError thrown
validateSlideDeck(data) ==
    LET result == ZParse(slideDeckSchema, data, <<>>) IN
    IF ~result.success
    THEN [ok |-> FALSE,
          error |-> ValidationError("Slide deck validation failed:", result.issues)]
    ELSE [ok |-> TRUE, value |-> result.data]

(***************************************************************************)
(* LaTeX-Lite sources: the text is typed as a sequence of fragments        *)
(***************************************************************************)
Cmd(name) == <<"\\">> \o name
Braces(body) == <<"{">> \o body \o <<"}">>

S_foo == <<"f","o","o">>
S_Body == <<"B","o","d","y">>

\* a content directive as written in the source
DefinitionSrc == Cmd(S_definition) \o Braces(<<"D">>) \o Braces(S_Body)
TheoremSrc == Cmd(S_theorem) \o Braces(<<"T","h">>) \o Braces(<<"a","=","b">>)
ProofSrc == Cmd(S_proof) \o Braces(<<"P">>)
EquationSrc == Cmd(S_equation) \o Braces(<<"x","^","2">>)
FigureSrc == Cmd(S_figure) \o Braces(<<"f",".","p","n","g">>)
AlgorithmSrc == Cmd(S_algorithm) \o Braces(<<"A">>) \o Braces(<<"a",","," ","b">>)
NoteSrc == Cmd(S_note) \o Braces(<<"N">>)

\* the node each of them stands for
DirectiveNode(src) ==
    CASE src = DefinitionSrc ->
           JObj([type |-> JStr(S_definition), title |-> JStr(<<"D">>),
                 body |-> JStr(S_Body)])
      [] src = TheoremSrc ->
           JObj([type |-> JStr(S_theorem), title |-> JStr(<<"T","h">>),
                 body |-> JStr(<<"a","=","b">>)])
      [] src = ProofSrc -> JObj([type |-> JStr(S_proof), body |-> JStr(<<"P">>)])
      [] src = EquationSrc ->
           JObj([type |-> JStr(S_equation), latex |-> JStr(<<"x","^","2">>),
                 animate |-> JStr(S_none)])
      [] src = FigureSrc ->
           JObj([type |-> JStr(S_figure), ref |-> JStr(<<"f",".","p","n","g">>)])
      [] src = AlgorithmSrc ->
           JObj([type |-> JStr(S_algorithm), name |-> JStr(<<"A">>),
                 steps |-> JArr(<<JStr(<<"a">>), JStr(<<"b">>)>>)])
      [] src = NoteSrc -> JObj([type |-> JStr(S_note), body |-> JStr(<<"N">>)])

Directives ==
    {DefinitionSrc, TheoremSrc, ProofSrc, EquationSrc, FigureSrc, AlgorithmSrc,
     NoteSrc}

TitleSrc == Cmd(S_title) \o Braces(<<"T">>)
SlideOpenSrc == Cmd(S_slide) \o Braces(<<"S","1">>) \o <<"{">>
UnknownSrc == Cmd(S_foo) \o Braces(<<"x">>)
CloseSrc == <<"}">>
NewlineSrc == <<"\n">>
SpaceSrc == <<" ">>
TitleOpenSrc == Cmd(S_title) \o <<"{", "A">>
TextSrc == <<"h", "i">>

\* what can be typed outside a slide body, and inside one
TopFragments ==
    {TitleSrc, SlideOpenSrc, UnknownSrc, NewlineSrc, SpaceSrc, TitleOpenSrc,
     TextSrc}
BodyFragments == Directives \cup {UnknownSrc, CloseSrc, TextSrc, NewlineSrc}

MaxFragments == 4
MaxDirectives == 2

(***************************************************************************)
(* Candidate IR documents: the JSON value handed to validateSlideDeck is   *)
(* written slide by slide and node by node                                 *)
(***************************************************************************)
S_bogus == <<"b","o","g","u","s">>
S_page == <<"p","a","g","e">>
S_xyz == <<"x","y","z">>

\* content nodes that follow the schema table
DefinitionJson ==
    JObj([type |-> JStr(S_definition), title |-> JStr(<<"D">>), body |-> JStr(S_Body)])
TheoremJson ==
    JObj([type |-> JStr(S_theorem), title |-> JStr(<<"T","h">>), body |-> JStr(<<"b">>)])
ProofJson == JObj([type |-> JStr(S_proof), body |-> JStr(<<"P">>)])
EquationJson == JObj([type |-> JStr(S_equation), latex |-> JStr(<<"x">>)])
EquationRevealJson ==
    JObj([type |-> JStr(S_equation), latex |-> JStr(<<"x">>),
          animate |-> JStr(S_reveal)])
FigureJson ==
    JObj([type |-> JStr(S_figure), ref |-> JStr(<<"f">>), alt |-> JStr(<<"a">>)])
AlgorithmEmptyJson ==
    JObj([type |-> JStr(S_algorithm), name |-> JStr(<<"A">>), steps |-> JArr(<<>>)])
AlgorithmJson ==
    JObj([type |-> JStr(S_algorithm), name |-> JStr(<<"A">>),
          steps |-> JArr(<<JStr(<<"a">>), JStr(<<"b">>)>>)])
NoteJson == JObj([type |-> JStr(S_note), body |-> JStr(<<"N">>)])
TextJson == JObj([type |-> JStr(S_text), content |-> JStr(<<"h","i">>)])

\* content nodes that do not
BogusJson == JObj([type |-> JStr(S_bogus), body |-> JNum(1)])
NoTypeJson == JObj([body |-> JStr(<<"P">>)])
DefinitionFaultyJson == JObj([type |-> JStr(S_definition), title |-> JNum(7)])
EquationXyzJson ==
    JObj([type |-> JStr(S_equation), latex |-> JStr(<<"x">>), animate |-> JStr(S_xyz)])
AlgorithmFaultyJson ==
    JObj([type |-> JStr(S_algorithm), name |-> JStr(<<"A">>),
          steps |-> JArr(<<JNum(1), JStr(<<"a">>), JNull>>)])
NoteExtraJson ==
    JObj([type |-> JStr(S_note), body |-> JStr(<<"N">>), color |-> JStr(<<"r">>)])

NodeChoices ==
    {DefinitionJson, TheoremJson, ProofJson, EquationJson, EquationRevealJson,
     FigureJson, AlgorithmEmptyJson, AlgorithmJson, NoteJson, TextJson,
     BogusJson, NoTypeJson, DefinitionFaultyJson, EquationXyzJson,
     AlgorithmFaultyJson, NoteExtraJson}

\* slides, before any content node is added
SlideJson ==
    JObj([type |-> JStr(S_slide), id |-> JStr(<<"s","1">>), title |-> JStr(<<"S">>),
          content |-> JArr(<<>>)])
SlideEmptyIdJson ==
    JObj([type |-> JStr(S_slide), id |-> JStr(<<>>), title |-> JStr(<<"S">>),
          content |-> JArr(<<TextJson>>)])
SlidePageJson ==
    JObj([type |-> JStr(S_page), id |-> JStr(<<"s","1">>), title |-> JStr(<<"S">>),
          content |-> JArr(<<AlgorithmFaultyJson, BogusJson>>)])
SlideFaultyJson ==
    JObj([type |-> JStr(S_slide), title |-> JNum(3), content |-> JArr(<<>>)])
SlideExtraJson ==
    JObj([type |-> JStr(S_slide), id |-> JStr(<<"s","1">>), title |-> JStr(<<"S">>),
          content |-> JArr(<<>>), layout |-> JStr(<<"w">>)])
SlideNoContentJson ==
    JObj([type |-> JStr(S_slide), id |-> JStr(<<"s","1">>), title |-> JStr(<<"S">>),
          content |-> JStr(<<"c">>)])

\* the slides content nodes are added to
OpenSlides == {SlideJson}

SlideChoices ==
    {SlideJson, SlideEmptyIdJson, SlidePageJson, SlideFaultyJson, SlideExtraJson,
     SlideNoContentJson, JNull}

\* documents, before any slide is added
DeckJson ==
    JObj([meta |-> JObj([title |-> JStr(<<"T">>)]), slides |-> JArr(<<>>)])
DeckFullMetaJson ==
    JObj([meta |-> JObj([title |-> JStr(<<"T">>), author |-> JStr(<<"A">>),
                         date |-> JStr(<<"2","0">>)]),
          slides |-> JArr(<<>>)])
DeckFaultyMetaJson ==
    JObj([meta |-> JObj([author |-> JNum(7)]), slides |-> JArr(<<>>)])
DeckMetaExtraJson ==
    JObj([meta |-> JObj([title |-> JStr(<<"T">>), theme |-> JStr(<<"d">>)]),
          slides |-> JArr(<<>>)])
DeckRootExtraJson ==
    JObj([meta |-> JObj([title |-> JStr(<<"T">>)]), slides |-> JArr(<<>>),
          version |-> JNum(1)])
DeckNoSlidesJson == JObj([meta |-> JStr(<<"T">>)])

DeckChoices ==
    {DeckJson, DeckFullMetaJson, DeckFaultyMetaJson, DeckMetaExtraJson,
     DeckRootExtraJson, DeckNoSlidesJson, JNull, JArr(<<>>)}

\* the documents slides are added to
OpenDecks == {DeckJson, DeckFaultyMetaJson}

MaxSlides == 2
MaxNodes == 1

\* JSON.parse(JSON.stringify(v)): keys whose value is undefined are not
\* written, an undefined array element is written as null
RECURSIVE JsonRoundTrip(_)
JsonRoundTrip(v) ==
    CASE v.kind = "object" ->
           JObj([k \in { j \in DOMAIN v.props : v.props[j].kind # "undefined" } |->
                    JsonRoundTrip(v.props[k])])
      [] v.kind = "array" ->
           JArr([i \in 1..Len(v.items) |->
                    IF v.items[i].kind = "undefined" THEN JNull
                    ELSE JsonRoundTrip(v.items[i])])
      [] OTHER -> v

(***************************************************************************)
(* State                                                                   *)
(***************************************************************************)
parserVars == <<typed, parsed, tokenizer>>
validatorVars == <<candidate, validated, revalidated>>
rendererVars == <<currentSlideIndex, isPresenterMode, isDarkMode>>
appVars ==
    <<slideDeck, error, isLoading, isPasteModalOpen, pasteContent, upload,
      rendererVars>>
vars == <<parserVars, validatorVars, history, appVars>>

\* error === null
NoError == [header |-> "null"]
NoUpload == [name |-> "none"]

\* the useState defaults of SlideRenderer
RendererInit ==
    /\ currentSlideIndex = 0
    /\ isPresenterMode = FALSE
    /\ isDarkMode = FALSE

\* the useState defaults of App, no file being read, and the renderer as it
\* will be mounted
AppInit ==
    /\ slideDeck = JNull
    /\ error = NoError
    /\ isLoading = FALSE
    /\ isPasteModalOpen = FALSE
    /\ pasteContent = <<>>
    /\ upload = NoUpload
    /\ RendererInit

\* new Tokenizer(input), and tokenize()'s empty token list
NewTokenizer(input) ==
    [input |-> input, cursor |-> TokenizerInit, tokens |-> <<>>, returned |-> FALSE]

NotParsed == [ok |-> FALSE, error |-> [name |-> "none"]]
NotValidated == [ok |-> FALSE, error |-> [name |-> "none"]]

Source == Flatten(typed)

\* the number of slide bodies opened and not yet closed by the fragments
RECURSIVE OpenBodies(_)
OpenBodies(fs) ==
    IF fs = <<>> THEN 0
    ELSE LET n == OpenBodies(SubSeq(fs, 1, Len(fs) - 1))
             f == fs[Len(fs)]
         IN IF f = SlideOpenSrc THEN n + 1
            ELSE IF f = CloseSrc /\ n > 0 THEN n - 1
            ELSE n

IsDirective(f) == f \in Directives

Slides(deck) == deck.props.slides.items
Content(slide) == slide.props.content.items

RECURSIVE CountNodes(_)
CountNodes(slides) ==
    IF slides = <<>> THEN 0
    ELSE (IF HasKey(Head(slides), "content") /\ IsArr(Head(slides).props.content)
          THEN Len(Content(Head(slides))) ELSE 0) + CountNodes(Tail(slides))

Init ==
    /\ typed = <<>>
    /\ parsed = NotParsed
    /\ candidate = JNull
    /\ validated = NotValidated
    /\ revalidated = NotValidated
    /\ history = <<>>
    /\ tokenizer = NewTokenizer(<<>>)
    /\ AppInit

\* the author types one more fragment of the source
Type(f) ==
    /\ parsed = NotParsed
    /\ Len(typed) < MaxFragments
    /\ IF OpenBodies(typed) > 0 THEN f \in BodyFragments ELSE f \in TopFragments
    /\ f \in Directives => Len(SelectSeq(typed, IsDirective)) < MaxDirectives
    /\ typed' = Append(typed, f)
    /\ UNCHANGED <<parsed, tokenizer, validatorVars, history, appVars>>

\* parseLatexLite(source)
ParseLatexLite ==
    /\ parsed = NotParsed
    /\ parsed' = parseLatexLite(Source)
    /\ UNCHANGED <<typed, tokenizer, validatorVars, history, appVars>>

Next ==
    \/ \E f \in TopFragments \cup BodyFragments : Type(f)
    \/ ParseLatexLite

Spec == Init /\ [][Next]_vars

(***************************************************************************)
(* Validation of a JSON document                                           *)
(***************************************************************************)
InitValidate ==
    /\ typed = <<>>
    /\ parsed = NotParsed
    /\ candidate \in DeckChoices
    /\ validated = NotValidated
    /\ revalidated = NotValidated
    /\ history = <<>>
    /\ tokenizer = NewTokenizer(<<>>)
    /\ AppInit

\* one more slide is written at the end of the document's slides
AddSlide(slide) ==
    /\ validated = NotValidated
    /\ IsObj(candidate) /\ HasKey(candidate, "slides")
    /\ JObj([candidate.props EXCEPT !.slides = JArr(<<>>)]) \in OpenDecks
    /\ Len(Slides(candidate)) < MaxSlides
    /\ candidate' =
         JObj([candidate.props EXCEPT !.slides = JArr(Append(@.items, slide))])
    /\ UNCHANGED <<parserVars, validated, revalidated, history, appVars>>

\* one more content node is written at the end of the last slide
AddNode(node) ==
    /\ validated = NotValidated
    /\ IsObj(candidate) /\ HasKey(candidate, "slides")
    /\ Slides(candidate) # <<>>
    /\ CountNodes(Slides(candidate)) < MaxNodes
    /\ LET n == Len(Slides(candidate))
           last == Slides(candidate)[n]
       IN /\ IsObj(last) /\ HasKey(last, "content") /\ IsArr(last.props.content)
          /\ JObj([last.props EXCEPT !.content = JArr(<<>>)]) \in OpenSlides
          /\ candidate' =
               JObj([candidate.props EXCEPT !.slides =
                  JArr([@.items EXCEPT ![n] =
                     JObj([last.props EXCEPT !.content =
                        JArr(Append(@.items, node))])])])
    /\ UNCHANGED <<parserVars, validated, revalidated, history, appVars>>

\* validateSlideDeck(candidate)
ValidateSlideDeck ==
    /\ validated = NotValidated
    /\ validated' = validateSlideDeck(candidate)
    /\ UNCHANGED <<parserVars, candidate, revalidated, history, appVars>>

\* validateSlideDeck(JSON.parse(JSON.stringify(deck))) of an accepted deck
Revalidate ==
    /\ validated.ok
    /\ revalidated = NotValidated
    /\ revalidated' = validateSlideDeck(JsonRoundTrip(validated.value))
    /\ UNCHANGED <<parserVars, candidate, validated, history, appVars>>

NextValidate ==
    \/ \E slide \in SlideChoices : AddSlide(slide)
    \/ \E node \in NodeChoices : AddNode(node)
    \/ ValidateSlideDeck
    \/ Revalidate

SpecValidate == InitValidate /\ [][NextValidate]_vars

(***************************************************************************)
(* Properties of parseLatexLite                                            *)
(***************************************************************************)
Parsed == parsed # NotParsed

\* the 1-based line and column of the character at 0-based offset p
LineAt(src, p) == 1 + Cardinality({ i \in 1..p : src[i] = "\n" })
ColumnAt(src, p) ==
    LET breaks == { i \in 1..p : src[i] = "\n" }
        last == IF breaks = {} THEN 0
                ELSE CHOOSE i \in breaks : \A j \in breaks : j <= i
    IN p + 1 - last

\* typed = some \title / newline lines, then one \slide{S1}{ ... } whose
\* body holds content directives only
IsSlideOfDirectives ==
    \E o \in 1..Len(typed) :
       /\ typed[o] = SlideOpenSrc
       /\ \A i \in 1..(o - 1) : typed[i] \in {TitleSrc, NewlineSrc}
       /\ Len(typed) > o
       /\ typed[Len(typed)] = CloseSrc
       /\ \A i \in (o + 1)..(Len(typed) - 1) : typed[i] \in Directives

ExpectedDeck ==
    LET o == CHOOSE i \in 1..Len(typed) : typed[i] = SlideOpenSrc
        body == SubSeq(typed, o + 1, Len(typed) - 1)
    IN JObj([meta |-> JObj([title |->
                IF \E i \in 1..(o - 1) : typed[i] = TitleSrc
                THEN JStr(<<"T">>) ELSE JStr(S_UntitledDeck)]),
             slides |-> JArr(<<
                JObj([type |-> JStr(S_slide),
                      id |-> JStr(<<"s","l","i","d","e","-","s","1">>),
                      title |-> JStr(<<"S","1">>),
                      content |-> JArr([i \in 1..Len(body) |->
                                          DirectiveNode(body[i])])])>>)])

\* C1: a source \slide{t}{body} whose body is a sequence of content
\* directives parses to a deck whose slide holds exactly one node per
\* directive, in source order, with the directive's type and fields
C1_OneNodePerDirective ==
    (Parsed /\ IsSlideOfDirectives) =>
        (parsed.ok /\ parsed.value = ExpectedDeck)

\* typed = \slide{S1}{, content, then a command that is no content directive
UnknownCommandInBody ==
    /\ Len(typed) >= 2
    /\ typed[1] = SlideOpenSrc
    /\ \E i \in 2..Len(typed) :
          /\ typed[i] = UnknownSrc
          /\ \A j \in 2..(i - 1) : typed[j] \in Directives \cup {TextSrc, NewlineSrc}

\* C2: a command inside a slide body whose name is none of the seven content
\* directives makes the parse fail with the "Unknown command" ParserError
C2_UnknownCommandInBodyFails ==
    (Parsed /\ UnknownCommandInBody) =>
        (/\ ~parsed.ok
         /\ parsed.error.name = "ParserError"
         /\ parsed.error.message.prefix = "Unknown command: \\")

\* the source ends inside a brace group that \slide or \title opened, and
\* nothing before it is a grammar violation
EndsInOpenBraceGroup ==
    /\ typed # <<>>
    /\ typed[Len(typed)] \in {SlideOpenSrc, TitleOpenSrc}
    /\ \A i \in 1..(Len(typed) - 1) : typed[i] \in {TitleSrc, NewlineSrc, SpaceSrc}

CitesEndOfInput(err) ==
    /\ err.name = "ParserError"
    /\ err.message.prefix \in
         { "Expected " \o t \o ", got EOF" : t \in TokenType }
           \cup {"Unexpected token at top level: EOF"}

\* C3: when END-OF-INPUT is reached inside an open brace group the parse
\* fails with a ParserError citing end of input
C3_UnterminatedBraceGroupFails ==
    (Parsed /\ EndsInOpenBraceGroup) =>
        (~parsed.ok /\ CitesEndOfInput(parsed.error))

\* the i-th fragment is at the top level and no fragment before it is a
\* grammar violation
CleanTopLevelPrefix(i) ==
    /\ OpenBodies(SubSeq(typed, 1, i - 1)) = 0
    /\ \A j \in 1..(i - 1) :
          /\ typed[j] \notin {UnknownSrc, TitleOpenSrc}
          /\ typed[j] = TextSrc => OpenBodies(SubSeq(typed, 1, j - 1)) > 0

\* C4: when the first grammar violation is a top-level command other than
\* \slide and \title, the ParserError carries the 1-based line and column
\* of that command's backslash in the source text
C4_TopLevelCommandErrorLocation ==
    Parsed =>
      \A i \in 1..Len(typed) :
         (typed[i] = UnknownSrc /\ CleanTopLevelPrefix(i)) =>
            LET p == Len(Flatten(SubSeq(typed, 1, i - 1))) IN
            /\ Source[p + 1] = "\\"
            /\ parsed = [ok |-> FALSE,
                         error |-> ParserError("Unexpected command at top level: \\",
                                               S_foo,
                                               ". Only \\slide and \\title are allowed.",
                                               LineAt(Source, p), ColumnAt(Source, p))]

\* the unknown command comes after a line break and a space
C4_Witness ==
    /\ Parsed
    /\ \E i \in 1..Len(typed) : typed[i] = UnknownSrc /\ CleanTopLevelPrefix(i)
    /\ ~parsed.ok
    /\ parsed.error.line > 1
    /\ parsed.error.column > 1

(***************************************************************************)
(* The IR as its type declarations give it                                 *)
(***************************************************************************)
\* ContentNode: the eight type literals
NodeTypes ==
    <<S_definition, S_theorem, S_proof, S_equation, S_figure, S_algorithm,
      S_note, S_text>>

\* the fields of each variant declared `: string`, in declaration order
RequiredStrings(t) ==
    CASE t = S_definition -> <<"title", "body">>
      [] t = S_theorem -> <<"title", "body">>
      [] t = S_proof -> <<"body">>
      [] t = S_equation -> <<"latex">>
      [] t = S_figure -> <<"ref">>
      [] t = S_algorithm -> <<"name">>
      [] t = S_note -> <<"body">>
      [] t = S_text -> <<"content">>

\* the fields declared `?: string`
OptionalStrings(t) ==
    IF t = S_figure THEN <<"alt", "caption">> ELSE <<>>

\* every key a variant declares
NodeKeys(t) ==
    {"type"} \cup Range(RequiredStrings(t)) \cup Range(OptionalStrings(t))
      \cup (IF t = S_equation THEN {"animate"} ELSE {})
      \cup (IF t = S_algorithm THEN {"steps"} ELSE {})

SlideKeys == {"type", "id", "title", "content"}
MetaKeys == {"title", "author", "date"}
DeckKeys == {"meta", "slides"}

\* the type of a node when it is one of the eight literals, else <<>>
KnownType(node) ==
    IF IsObj(node) /\ HasKey(node, "type") /\ IsStr(node.props.type)
       /\ node.props.type.str \in Range(NodeTypes)
    THEN node.props.type.str ELSE <<>>

\* the slides of a document and the content of a slide, <<>> when there is
\* no such array
SlidesOf(deck) ==
    IF IsObj(deck) /\ HasKey(deck, "slides") /\ IsArr(deck.props.slides)
    THEN deck.props.slides.items ELSE <<>>

ContentOf(slide) ==
    IF IsObj(slide) /\ HasKey(slide, "content") /\ IsArr(slide.props.content)
    THEN slide.props.content.items ELSE <<>>

Validated == validated # NotValidated

(***************************************************************************)
(* Properties of validateSlideDeck                                         *)
(***************************************************************************)
ExtraKeys(obj, listed) == IF IsObj(obj) THEN DOMAIN obj.props \ listed ELSE {}

\* the root, the meta object, a slide or a content node of a known type
\* carries a key its declaration does not list
HasExtraKey(deck) ==
    \/ ExtraKeys(deck, DeckKeys) # {}
    \/ HasKey(deck, "meta") /\ ExtraKeys(deck.props.meta, MetaKeys) # {}
    \/ \E i \in 1..Len(SlidesOf(deck)) :
          \/ ExtraKeys(SlidesOf(deck)[i], SlideKeys) # {}
          \/ \E j \in 1..Len(ContentOf(SlidesOf(deck)[i])) :
                /\ KnownType(ContentOf(SlidesOf(deck)[i])[j]) # <<>>
                /\ ExtraKeys(ContentOf(SlidesOf(deck)[i])[j],
                             NodeKeys(KnownType(ContentOf(SlidesOf(deck)[i])[j]))) # {}

\* C5: a candidate in which the root, the meta object, a slide or a content
\* node carries a key that the schema table does not list for it is rejected
\* with a ValidationError, never accepted
C5_ExtraKeysRejected ==
    (Validated /\ HasExtraKey(candidate)) =>
        (~validated.ok /\ validated.error.name = "ValidationError")

\* C6: the value returned for an accepted candidate is structurally equal to
\* the candidate: no field added, removed, defaulted or coerced
C6_ResultEqualsCandidate ==
    (Validated /\ validated.ok) => validated.value = candidate

IsStringField(obj, k) == HasKey(obj, k) /\ IsStr(obj.props[k])

\* a content node as C7 describes it
WellTypedNode(node) ==
    /\ KnownType(node) # <<>>
    /\ \A k \in Range(RequiredStrings(KnownType(node))) : IsStringField(node, k)
    /\ KnownType(node) = S_algorithm =>
          /\ HasKey(node, "steps") /\ IsArr(node.props.steps)
          /\ \A i \in 1..Len(node.props.steps.items) :
                IsStr(node.props.steps.items[i])
    /\ (KnownType(node) = S_equation /\ HasKey(node, "animate")) =>
          /\ IsStr(node.props.animate)
          /\ node.props.animate.str \in {S_none, S_reveal, S_highlight}

WellTypedSlide(slide) ==
    /\ IsObj(slide)
    /\ HasKey(slide, "type") /\ slide.props.type = JStr(S_slide)
    /\ IsStringField(slide, "id")
    /\ IsStringField(slide, "title")
    /\ HasKey(slide, "content") /\ IsArr(slide.props.content)
    /\ \A j \in 1..Len(slide.props.content.items) :
          WellTypedNode(slide.props.content.items[j])

WellTypedDeck(deck) ==
    /\ IsObj(deck)
    /\ HasKey(deck, "meta") /\ IsStringField(deck.props.meta, "title")
    /\ HasKey(deck, "slides") /\ IsArr(deck.props.slides)
    /\ \A i \in 1..Len(deck.props.slides.items) :
          WellTypedSlide(deck.props.slides.items[i])

\* C7: an accepted value has a string meta.title; slides of type "slide"
\* with string id and title; content nodes of one of the eight types whose
\* required fields are strings; algorithm.steps an array of strings;
\* equation.animate, if present, one of none, reveal, highlight
C7_AcceptedIsWellTyped ==
    (Validated /\ validated.ok) =>
        (WellTypedDeck(candidate) /\ WellTypedDeck(validated.value))

\* a node of the candidate's i-th slide has the given type and is accepted
AcceptedNodeOfType(t) ==
    /\ Validated /\ validated.ok
    /\ \E i \in 1..Len(SlidesOf(candidate)) :
          \E j \in 1..Len(ContentOf(SlidesOf(candidate)[i])) :
             KnownType(ContentOf(SlidesOf(candidate)[i])[j]) = t

\* an algorithm with an empty steps array is accepted
C7_Witness ==
    /\ AcceptedNodeOfType(S_algorithm)
    /\ \E i \in 1..Len(SlidesOf(candidate)) :
          AlgorithmEmptyJson \in Range(ContentOf(SlidesOf(candidate)[i]))

\* the path of the j-th node of the i-th slide (zod counts from 0)
NodePath(i, j) == <<Key("slides"), Idx(i - 1), Key("content"), Idx(j - 1)>>

IsUnder(path, prefix) ==
    Len(path) >= Len(prefix) /\ SubSeq(path, 1, Len(prefix)) = prefix

\* the diagnostics about the value at the path or about a part of it
IssuesUnder(issues, prefix) ==
    SelectSeq(issues, LAMBDA issue : IsUnder(issue.path, prefix))

\* a node object with a type that is none of the eight literals
HasUnknownType(node) ==
    IsObj(node) /\ HasKey(node, "type") /\ KnownType(node) = <<>>

UnknownTypeAt(i, j) ==
    /\ i \in 1..Len(SlidesOf(candidate))
    /\ j \in 1..Len(ContentOf(SlidesOf(candidate)[i]))
    /\ HasUnknownType(ContentOf(SlidesOf(candidate)[i])[j])

\* C8: a node with a type outside the eight literals at content index j of
\* slide i makes validateSlideDeck raise a ValidationError with exactly one
\* diagnostic for that node; its path is slides.i.content.j.type and it
\* reports an invalid discriminant, not missing fields of the variants
C8_UnknownDiscriminantDiagnostic ==
    Validated =>
      \A i \in 1..Len(SlidesOf(candidate)) :
      \A j \in 1..Len(ContentOf(SlidesOf(candidate)[i])) :
         UnknownTypeAt(i, j) =>
            /\ ~validated.ok
            /\ validated.error.name = "ValidationError"
            /\ Len(IssuesUnder(validated.error.issues, NodePath(i, j))) = 1
            /\ IssuesUnder(validated.error.issues, NodePath(i, j))[1].path =
                  NodePath(i, j) \o <<Key("type")>>
            /\ IssuesUnder(validated.error.issues, NodePath(i, j))[1].code =
                  "invalid_union_discriminator"

\* the node of unknown type is the second node of the second slide
C8_Witness ==
    /\ Validated
    /\ UnknownTypeAt(2, 2)
    /\ ~validated.ok
    /\ Len(validated.error.issues) > 1

\* the paths of the faulty fields of a document, in document order
StringFault(v, path) == IF IsStr(v) THEN <<>> ELSE <<path>>

OptionalStringFault(v, path) ==
    IF v = JUndefined \/ IsStr(v) THEN <<>> ELSE <<path>>

AnimateFault(v, path) ==
    IF v = JUndefined \/ (IsStr(v) /\ v.str \in {S_none, S_reveal, S_highlight})
    THEN <<>> ELSE <<path>>

StepsFaults(v, path) ==
    IF ~IsArr(v) THEN <<path>>
    ELSE Flatten([i \in 1..Len(v.items) |->
                    StringFault(v.items[i], Append(path, Idx(i - 1)))])

StringFaults(obj, keys, path) ==
    Flatten([i \in 1..Len(keys) |->
               StringFault(Get(obj, keys[i]), Append(path, Key(keys[i])))])

OptionalStringFaults(obj, keys, path) ==
    Flatten([i \in 1..Len(keys) |->
               OptionalStringFault(Get(obj, keys[i]), Append(path, Key(keys[i])))])

NodeFaults(node, path) ==
    IF ~IsObj(node) THEN <<path>>
    ELSE IF KnownType(node) = <<>> THEN <<Append(path, Key("type"))>>
    ELSE StringFaults(node, RequiredStrings(KnownType(node)), path)
         \o OptionalStringFaults(node, OptionalStrings(KnownType(node)), path)
         \o (IF KnownType(node) = S_equation
             THEN AnimateFault(Get(node, "animate"), Append(path, Key("animate")))
             ELSE <<>>)
         \o (IF KnownType(node) = S_algorithm
             THEN StepsFaults(Get(node, "steps"), Append(path, Key("steps")))
             ELSE <<>>)

ContentFaults(v, path) ==
    IF ~IsArr(v) THEN <<path>>
    ELSE Flatten([j \in 1..Len(v.items) |->
                    NodeFaults(v.items[j], Append(path, Idx(j - 1)))])

SlideFaults(slide, path) ==
    IF ~IsObj(slide) THEN <<path>>
    ELSE (IF Get(slide, "type") = JStr(S_slide) THEN <<>>
          ELSE <<Append(path, Key("type"))>>)
         \o StringFaults(slide, <<"id", "title">>, path)
         \o ContentFaults(Get(slide, "content"), Append(path, Key("content")))

SlidesFaults(v, path) ==
    IF ~IsArr(v) THEN <<path>>
    ELSE Flatten([i \in 1..Len(v.items) |->
                    SlideFaults(v.items[i], Append(path, Idx(i - 1)))])

MetaFaults(meta, path) ==
    IF ~IsObj(meta) THEN <<path>>
    ELSE StringFaults(meta, <<"title">>, path)
         \o OptionalStringFaults(meta, <<"author", "date">>, path)

DeckFaults(deck) ==
    IF ~IsObj(deck) THEN << <<>> >>
    ELSE MetaFaults(Get(deck, "meta"), <<Key("meta")>>)
         \o SlidesFaults(Get(deck, "slides"), <<Key("slides")>>)

IssuePaths(issues) == [n \in 1..Len(issues) |-> issues[n].path]

C10_ValidationIdempotent ==
    revalidated # NotValidated =>
        (revalidated.ok /\ revalidated.value = validated.value)

\* the document validated twice has a slide with a content node
C10_Witness ==
    /\ revalidated # NotValidated
    /\ revalidated.ok
    /\ \E i \in 1..Len(SlidesOf(validated.value)) :
          ContentOf(SlidesOf(validated.value)[i]) # <<>>

(***************************************************************************)
(* Repeated calls of parseLatexLite                                        *)
(***************************************************************************)
\* source texts: decks with slide bodies, and texts with a grammar violation
\* on the first and on a later line
Sources ==
    { <<>>,
      Flatten(<<TitleSrc, NewlineSrc, SlideOpenSrc, NoteSrc, CloseSrc>>),
      Flatten(<<SlideOpenSrc, TextSrc, CloseSrc, SlideOpenSrc, CloseSrc>>),
      Flatten(<<NewlineSrc, SpaceSrc, UnknownSrc>>),
      Flatten(<<SlideOpenSrc, TextSrc, CloseSrc, NewlineSrc, TextSrc>>),
      TextSrc }

MaxCalls == 3

\* parseLatexLite(input), on a new Tokenizer and a new Parser
CallParseLatexLite(input) ==
    /\ Len(history) < MaxCalls
    /\ history' = Append(history, [input |-> input,
                                   outcome |-> parseLatexLite(input)])
    /\ UNCHANGED <<parserVars, validatorVars, appVars>>

NextReparse == \E input \in Sources : CallParseLatexLite(input)

SpecReparse == Init /\ [][NextReparse]_vars

Brackets(body) == <<"[">> \o body \o <<"]">>

\* the pieces directives are written from
ProofCmdSrc == Cmd(S_proof)
AlgorithmCmdSrc == Cmd(S_algorithm) \o Braces(<<"A">>)
EquationCmdSrc == Cmd(S_equation)
GroupNestedSrc == Braces(<<"f", "(", "{", "x", "}", ")">>)
GroupSpacedSrc == Braces(<<"a", " ", "{", "b", "}", " ", "c">>)
GroupPaddedSrc == Braces(<<" ", "{", "a", "}", "{", "b", "}", " ">>)
BlobSrc == Braces(<<"a", ",", " ", "b">>)
BlobEmptySrc == Braces(<<" ", " ", ",", " ", ",", " ">>)
BlobBracedSrc == Braces(<<"x", "_", "{", "1", "}", " ", "=", "0", ",", "y">>)
LatexSrc == Braces(<<"x", "^", "2">>)
AnimateSrc(mode) == Brackets(S_animateEq \o mode)
BracketFooSrc == Brackets(S_foo)

ContentFragments ==
    {ProofCmdSrc, AlgorithmCmdSrc, EquationCmdSrc,
     GroupNestedSrc, GroupSpacedSrc, GroupPaddedSrc,
     BlobSrc, BlobEmptySrc, BlobBracedSrc, LatexSrc,
     AnimateSrc(S_none), AnimateSrc(S_reveal), AnimateSrc(S_highlight),
     AnimateSrc(S_xyz), BracketFooSrc, TextSrc, NewlineSrc}

MaxContentFragments == 3

\* one more piece of the content is typed
TypeContent(f) ==
    /\ parsed = NotParsed
    /\ Len(typed) < MaxContentFragments
    /\ typed' = Append(typed, f)
    /\ UNCHANGED <<parsed, tokenizer, validatorVars, history, appVars>>

\* new Parser(new Tokenizer(source).tokenize()).parseContent(): the nodes,
\* or the ParserError thrown
ParseContent ==
    /\ parsed = NotParsed
    /\ LET outcome(r) ==
              IF r.ok THEN [ok |-> TRUE, value |-> r.value]
              ELSE [ok |-> FALSE, error |-> r.error]
       IN parsed' = outcome(parseContent(tokenize(Source)))
    /\ UNCHANGED <<typed, tokenizer, validatorVars, history, appVars>>

NextContent ==
    \/ \E f \in ContentFragments : TypeContent(f)
    \/ ParseContent

SpecContent == Init /\ [][NextContent]_vars

(***************************************************************************)
(* Properties of the content-list parser                                   *)
(***************************************************************************)
\* the number of braces open after the first n characters of g
Depth(g, n) ==
    Cardinality({ i \in 1..n : g[i] = "{" }) - Cardinality({ i \in 1..n : g[i] = "}" })

\* g is one brace group: it opens with a brace that its last character closes
IsBraceGroup(g) ==
    /\ Len(g) >= 2
    /\ g[1] = "{"
    /\ \A n \in 1..(Len(g) - 1) : Depth(g, n) > 0
    /\ Depth(g, Len(g)) = 0

\* the source text between the outer braces
Inner(g) == SubSeq(g, 2, Len(g) - 1)

HasInnerBraces(g) == \E i \in 1..Len(Inner(g)) : Inner(g)[i] = "{"

\* typed = \proof, a brace group with balanced inner braces, and at most a
\* text or a line break after it
IsProofWithInnerBraces ==
    /\ Len(typed) \in 2..3
    /\ typed[1] = ProofCmdSrc
    /\ IsBraceGroup(typed[2]) /\ HasInnerBraces(typed[2])
    /\ Len(typed) = 3 => typed[3] \in {TextSrc, NewlineSrc}

\* C12: the string read from a brace group with balanced inner braces is the
\* source text between the outer braces, trimmed, inner braces and all the
\* characters around them kept, and the read ends at the matching outer brace
C12_BraceContentVerbatim ==
    (Parsed /\ IsProofWithInnerBraces) =>
        /\ parsed.ok
        /\ parsed.value =
             <<JObj([type |-> JStr(S_proof),
                     body |-> JStr(Trim(Inner(typed[2])))])>>
             \o (IF Len(typed) = 3 /\ typed[3] = TextSrc THEN <<TextJson>>
                 ELSE <<>>)

\* the position of the k-th comma of s; 0 before the first one and
\* Len(s) + 1 after the last one
CommaAt(s, k) ==
    LET commas == { i \in 1..Len(s) : s[i] = "," } IN
    IF k = 0 THEN 0
    ELSE IF k > Cardinality(commas) THEN Len(s) + 1
    ELSE CHOOSE c \in commas : Cardinality({ d \in commas : d < c }) = k - 1

\* the comma-separated segments of s, trimmed, the empty ones left out
Segments(s) ==
    LET n == Cardinality({ i \in 1..Len(s) : s[i] = "," })
        segment == [k \in 1..(n + 1) |->
                      Trim(SubSeq(s, CommaAt(s, k - 1) + 1, CommaAt(s, k) - 1))]
    IN SelectSeq(segment, LAMBDA x : x # <<>>)

\* typed = \algorithm{A} and the brace group of its steps
IsAlgorithmWithBlob ==
    /\ Len(typed) = 2
    /\ typed[1] = AlgorithmCmdSrc
    /\ IsBraceGroup(typed[2])

\* C13: the steps of an algorithm node are the trimmed, non-empty
\* comma-separated segments of the source steps blob, in order; a blob with
\* no such segment gives an empty steps array
C13_StepsAreSourceSegments ==
    (Parsed /\ IsAlgorithmWithBlob) =>
        /\ parsed.ok
        /\ parsed.value =
             <<JObj([type |-> JStr(S_algorithm), name |-> JStr(<<"A">>),
                     steps |-> JArr([k \in 1..Len(Segments(Inner(typed[2]))) |->
                                       JStr(Segments(Inner(typed[2]))[k])])])>>

\* typed = \equation, at most an [animate=v] parameter with v one of the
\* three modes, and a brace group
IsEquationWithMode ==
    /\ Len(typed) \in 2..3
    /\ typed[1] = EquationCmdSrc
    /\ IsBraceGroup(typed[Len(typed)])
    /\ Len(typed) = 3 =>
          typed[2] \in {AnimateSrc(S_none), AnimateSrc(S_reveal),
                        AnimateSrc(S_highlight)}

\* the mode written in the source, "none" without a bracket parameter
ModeWritten ==
    IF Len(typed) = 2 THEN S_none
    ELSE CHOOSE v \in {S_none, S_reveal, S_highlight} : typed[2] = AnimateSrc(v)

\* C14: an \equation without a bracket parameter gives animate = "none", one
\* with [animate=v], v in {none, reveal, highlight}, gives animate = v;
\* \equation[animate=reveal]{x^2} gives {equation, latex "x^2", "reveal"}
C14_EquationAnimate ==
    (Parsed /\ IsEquationWithMode) =>
        /\ parsed.ok
        /\ Len(parsed.value) = 1
        /\ parsed.value[1].props.type = JStr(S_equation)
        /\ parsed.value[1].props.animate = JStr(ModeWritten)
        /\ typed[Len(typed)] = LatexSrc =>
              parsed.value[1] =
                 JObj([type |-> JStr(S_equation),
                       latex |-> JStr(<<"x", "^", "2">>),
                       animate |-> JStr(ModeWritten)])

\* \equation[animate=reveal]{x^2} has been parsed
C14_Witness ==
    /\ typed = <<EquationCmdSrc, AnimateSrc(S_reveal), LatexSrc>>
    /\ Parsed
    /\ parsed.ok
    /\ parsed.value[1].props.animate = JStr(S_reveal)

(***************************************************************************)
(* JSON.parse, on texts of objects, arrays, strings, integers and the      *)
(* three literals (the texts hold no fraction, exponent or \u escape)      *)
(***************************************************************************)
JBool(b) == [kind |-> "boolean", bool |-> b]

\* the SyntaxError JSON.parse throws
SyntaxError(p) ==
    [name |-> "SyntaxError",
     message |-> [prefix |-> "Unexpected token in JSON", value |-> <<>>,
                  suffix |-> ""],
     position |-> p - 1]

\* a character sequence as a property name
RECURSIVE Join(_)
Join(chars) == IF chars = <<>> THEN "" ELSE Head(chars) \o Join(Tail(chars))

RECURSIVE JsonSkip(_, _)
JsonSkip(text, p) ==
    IF p <= Len(text) /\ text[p] \in {" ", "\t", "\n", "\r"}
    THEN JsonSkip(text, p + 1) ELSE p

\* the characters of a string from p on, up to the closing quote
RECURSIVE JsonString(_, _, _)
JsonString(text, p, chars) ==
    IF p > Len(text) \/ text[p] \in {"\n", "\r", "\t"} THEN Throw(SyntaxError(p))
    ELSE IF text[p] = "\"" THEN Return(p + 1, chars)
    ELSE IF text[p] # "\\" THEN JsonString(text, p + 1, Append(chars, text[p]))
    ELSE IF p + 1 <= Len(text) /\ text[p + 1] \in {"\"", "\\", "/", "n", "r", "t"}
    THEN JsonString(text, p + 2,
                    Append(chars, CASE text[p + 1] = "n" -> "\n"
                                    [] text[p + 1] = "r" -> "\r"
                                    [] text[p + 1] = "t" -> "\t"
                                    [] OTHER -> text[p + 1]))
    ELSE Throw(SyntaxError(p + 1))

\* the value of a digit sequence
RECURSIVE Decimal(_)
Decimal(ds) ==
    IF ds = <<>> THEN 0
    ELSE 10 * Decimal(SubSeq(ds, 1, Len(ds) - 1))
         + (CHOOSE d \in 0..9 : ToString(d) = ds[Len(ds)])

\* an integer from p on
JsonNumber(text, p) ==
    LET from == IF text[p] = "-" THEN p + 1 ELSE p
        stops == { q \in from..Len(text) : text[q] \notin Digits }
        end == IF stops = {} THEN Len(text) + 1
               ELSE CHOOSE q \in stops : \A r \in stops : q <= r
        digits == SubSeq(text, from, end - 1)
    IN IF digits = <<>> THEN Throw(SyntaxError(from))
       ELSE IF Len(digits) > 1 /\ digits[1] = "0" THEN Throw(SyntaxError(from + 1))
       ELSE Return(end, JNum(IF from = p THEN Decimal(digits)
                             ELSE 0 - Decimal(digits)))

S_null == <<"n", "u", "l", "l">>
S_true == <<"t", "r", "u", "e">>
S_false == <<"f", "a", "l", "s", "e">>

RECURSIVE JsonValue(_, _)
RECURSIVE JsonMembers(_, _, _)
RECURSIVE JsonElements(_, _, _)

\* the value that starts at the first non-blank character from p0 on
JsonValue(text, p0) ==
    LET p == JsonSkip(text, p0)
        string(r) == IF r.ok THEN Return(r.pos, JStr(r.value)) ELSE r
    IN IF p > Len(text) THEN Throw(SyntaxError(p))
       ELSE IF text[p] = "{" THEN
           IF JsonSkip(text, p + 1) <= Len(text) /\ text[JsonSkip(text, p + 1)] = "}"
           THEN Return(JsonSkip(text, p + 1) + 1, JObj(<<>>))
           ELSE JsonMembers(text, p + 1, <<>>)
       ELSE IF text[p] = "[" THEN
           IF JsonSkip(text, p + 1) <= Len(text) /\ text[JsonSkip(text, p + 1)] = "]"
           THEN Return(JsonSkip(text, p + 1) + 1, JArr(<<>>))
           ELSE JsonElements(text, p + 1, <<>>)
       ELSE IF text[p] = "\"" THEN string(JsonString(text, p + 1, <<>>))
       ELSE IF text[p] \in Digits \cup {"-"} THEN JsonNumber(text, p)
       ELSE IF IsPrefixAt(text, p, S_null) THEN Return(p + 4, JNull)
       ELSE IF IsPrefixAt(text, p, S_true) THEN Return(p + 4, JBool(TRUE))
       ELSE IF IsPrefixAt(text, p, S_false) THEN Return(p + 5, JBool(FALSE))
       ELSE Throw(SyntaxError(p))

\* the members of an object from p0 on, after the members in props; a
\* repeated name keeps its last value
JsonMembers(text, p0, props) ==
    LET p == JsonSkip(text, p0)
        member(key, v) ==
            IF ~v.ok THEN v
            ELSE LET q == JsonSkip(text, v.pos)
                     all == (Join(key.value) :> v.value) @@ props
                 IN IF q > Len(text) THEN Throw(SyntaxError(q))
                    ELSE IF text[q] = "," THEN JsonMembers(text, q + 1, all)
                    ELSE IF text[q] = "}" THEN Return(q + 1, JObj(all))
                    ELSE Throw(SyntaxError(q))
        named(key) ==
            IF ~key.ok THEN key
            ELSE LET c == JsonSkip(text, key.pos)
                 IN IF c > Len(text) \/ text[c] # ":" THEN Throw(SyntaxError(c))
                    ELSE member(key, JsonValue(text, c + 1))
    IN IF p > Len(text) \/ text[p] # "\"" THEN Throw(SyntaxError(p))
       ELSE named(JsonString(text, p + 1, <<>>))

\* the elements of an array from p0 on, after the elements in items
JsonElements(text, p0, items) ==
    LET element(v) ==
            IF ~v.ok THEN v
            ELSE LET q == JsonSkip(text, v.pos)
                 IN IF q > Len(text) THEN Throw(SyntaxError(q))
                    ELSE IF text[q] = ","
                    THEN JsonElements(text, q + 1, Append(items, v.value))
                    ELSE IF text[q] = "]"
                    THEN Return(q + 1, JArr(Append(items, v.value)))
                    ELSE Throw(SyntaxError(q))
    IN element(JsonValue(text, p0))

\* JSON.parse(text): the value, or the SyntaxError thrown
JSONParse(text) ==
    LET whole(v) ==
            IF ~v.ok THEN v
            ELSE IF JsonSkip(text, v.pos) <= Len(text)
            THEN Throw(SyntaxError(JsonSkip(text, v.pos)))
            ELSE [ok |-> TRUE, value |-> v.value]
    IN whole(JsonValue(text, 1))

(***************************************************************************)
(* App: what the user can hand to the three load paths                     *)
(***************************************************************************)
S_meta == <<"m","e","t","a">>
S_slides == <<"s","l","i","d","e","s">>
S_json == <<"j","s","o","n">>
S_tex == <<"t","e","x">>
S_txt == <<"t","x","t">>

Quoted(s) == <<"\"">> \o s \o <<"\"">>

\* {"meta":{"title":"T"},"slides":[]}
DeckText ==
    Braces(Quoted(S_meta) \o <<":">>
           \o Braces(Quoted(S_title) \o <<":">> \o Quoted(<<"T">>))
           \o <<",">> \o Quoted(S_slides) \o <<":", "[", "]">>)
\* { "meta": {"title":"T","x":1},"slides":[] } with a trailing newline
DeckExtraText ==
    <<"{", " ">> \o Quoted(S_meta) \o <<":", " ">>
    \o Braces(Quoted(S_title) \o <<":">> \o Quoted(<<"T">>) \o <<",">>
              \o Quoted(<<"x">>) \o <<":", "1">>)
    \o <<",">> \o Quoted(S_slides) \o <<":", "[", "]", " ", "}", "\n">>
\* {"meta":{},"slides":7}
DeckFaultyText ==
    Braces(Quoted(S_meta) \o <<":", "{", "}", ",">>
           \o Quoted(S_slides) \o <<":", "7">>)
\* [null]
ArrayText == <<"[">> \o S_null \o <<"]">>
\* {"meta":
TruncatedText == <<"{">> \o Quoted(S_meta) \o <<":">>
\* {"meta":{},}
TrailingCommaText == Braces(Quoted(S_meta) \o <<":", "{", "}", ",">>)
LatexDeckText == Flatten(<<TitleSrc, NewlineSrc, SlideOpenSrc, NoteSrc, CloseSrc>>)
BlankText == <<" ", "\n">>

Texts ==
    {DeckText, DeckExtraText, DeckFaultyText, ArrayText, TruncatedText,
     TrailingCommaText, LatexDeckText, UnknownSrc, TextSrc, BlankText, <<>>}

\* file names: d.json, D.JSON, d.tex, n.txt, d.md and json
FileNames ==
    { <<"d", ".">> \o S_json, <<"D", ".", "J", "S", "O", "N">>,
      <<"d", ".">> \o S_tex, <<"n", ".">> \o S_txt, <<"d", ".", "m", "d">>,
      S_json }

\* the EXAMPLE_SLIDE_DECK constant, its texts shortened to their initials
EXAMPLE_SLIDE_DECK ==
    JObj([meta |-> JObj([title |-> JStr(<<"I">>), author |-> JStr(<<"D">>),
                         date |-> JStr(<<"2","0","2","6">>)]),
          slides |-> JArr(<<
            JObj([type |-> JStr(S_slide), id |-> JStr(S_slideDash \o <<"1">>),
                  title |-> JStr(<<"L">>),
                  content |-> JArr(<<
                    JObj([type |-> JStr(S_definition), title |-> JStr(<<"L">>),
                          body |-> JStr(<<"A">>)]),
                    JObj([type |-> JStr(S_equation), latex |-> JStr(<<"\\", "l">>),
                          animate |-> JStr(S_reveal)]),
                    JObj([type |-> JStr(S_note), body |-> JStr(<<"E">>)])>>)]),
            JObj([type |-> JStr(S_slide), id |-> JStr(S_slideDash \o <<"2">>),
                  title |-> JStr(<<"L", "'">>),
                  content |-> JArr(<<
                    JObj([type |-> JStr(S_theorem), title |-> JStr(<<"L", "'">>),
                          body |-> JStr(<<"I">>)]),
                    JObj([type |-> JStr(S_proof), body |-> JStr(<<"F">>)])>>)])>>)])

(***************************************************************************)
(* App: the error texts                                                    *)
(***************************************************************************)
\* issue.path.join('.')
RECURSIVE JoinPath(_)
JoinPath(path) ==
    IF path = <<>> THEN ""
    ELSE (IF "key" \in DOMAIN Head(path) THEN Head(path).key
          ELSE ToString(Head(path).index))
         \o (IF Len(path) = 1 THEN "" ELSE "." \o JoinPath(Tail(path)))

\* formatValidationError(error): the header, then one numbered entry per
\* issue with its joined path, or "root", and its message
formatValidationError(e) ==
    [header |-> "IR Validation Failed",
     issues |-> [idx \in 1..Len(e.issues) |->
                   [number |-> idx,
                    path |-> IF Len(e.issues[idx].path) > 0
                             THEN JoinPath(e.issues[idx].path) ELSE "root",
                    message |-> e.issues[idx].message]]]

\* formatParserError(error): the header (without its cross mark), then the
\* line, the column and the message
formatParserError(e) ==
    [header |-> "Parse Error", line |-> e.line, column |-> e.column,
     message |-> e.message]

\* `JSON Parse Error\n\n${err.message}` (without its cross mark)
formatSyntaxError(e) == [header |-> "JSON Parse Error", message |-> e.message]

\* err.message of any other Error
formatOtherError(e) == [header |-> "", message |-> e.message]

\* new Error(`Unsupported file type: .${extension}. Use .json, .tex, or .txt`)
UnsupportedFileType(extension) ==
    [name |-> "Error",
     message |-> [prefix |-> "Unsupported file type: .", value |-> extension,
                  suffix |-> ". Use .json, .tex, or .txt"]]

\* the rejection of file.text() when the file cannot be read
NotReadable ==
    [name |-> "Error",
     message |-> [prefix |-> "NotReadableError", value |-> <<>>, suffix |-> ""]]

(***************************************************************************)
(* App: the bodies of the load handlers                                    *)
(***************************************************************************)
\* file.name.split('.').pop()?.toLowerCase()
Extension(name) ==
    LET dots == { i \in 1..Len(name) : name[i] = "." }
        last == IF dots = {} THEN 0 ELSE CHOOSE i \in dots : \A j \in dots : j <= i
    IN ToLowerCase(SubSeq(name, last + 1, Len(name)))

\* a load path that stores what JSON.parse returns
LoadJson_Unvalidated(content) == JSONParse(content)

\* validateSlideDeck(JSON.parse(content)), or what either of them throws
LoadJson(content) ==
    LET validate(json) == IF json.ok THEN validateSlideDeck(json.value) ELSE json
    IN validate(JSONParse(content))

\* validateSlideDeck(parseLatexLite(content)), or what either of them throws
LoadLatex(content) ==
    LET validate(deck) == IF deck.ok THEN validateSlideDeck(deck.value) ELSE deck
    IN validate(parseLatexLite(content))

\* the try block of handleFileUpload once the file's text is read
LoadFile(name, content) ==
    IF Extension(name) = S_json THEN LoadJson(content)
    ELSE IF Extension(name) \in {S_tex, S_txt} THEN LoadLatex(content)
    ELSE Throw(UnsupportedFileType(Extension(name)))

\* the catch block of handleFileUpload
FileError(err) ==
    IF err.name = "ValidationError" THEN formatValidationError(err)
    ELSE IF err.name = "ParserError" THEN formatParserError(err)
    ELSE IF err.name = "SyntaxError" THEN formatSyntaxError(err)
    ELSE formatOtherError(err)

\* a paste handled as JSON only, without the fallback
LoadPasted_JsonOnly(content) == LoadJson(content)

\* the try block of processPastedContent: JSON first, and on anything the
\* JSON path throws, LaTeX-Lite
LoadPasted(content) ==
    LET fallback(first) == IF first.ok THEN first ELSE LoadLatex(content)
    IN fallback(LoadJson(content))

\* the catch block of processPastedContent
PasteError(err) ==
    IF err.name = "ValidationError" THEN formatValidationError(err)
    ELSE IF err.name = "ParserError" THEN formatParserError(err)
    ELSE formatOtherError(err)

Screen_AlwaysWelcome == "welcome"

(***************************************************************************)
(* App: the component's handlers.  What is on screen decides which of them *)
(* the user can reach: the error screen comes first, then the loading      *)
(* screen, then the welcome screen, and the renderer when a deck is set.   *)
(***************************************************************************)
Screen ==
    IF error # NoError THEN "error"
    ELSE IF isLoading THEN "loading"
    ELSE IF slideDeck = JNull THEN "welcome"
    ELSE "slides"

restVars == <<parserVars, validatorVars, history>>

\* loadExampleDeck, behind "Try Demo" and the error screen's "Load Example"
LoadExampleDeck ==
    /\ Screen \in {"welcome", "error"}
    /\ LET deck == validateSlideDeck(EXAMPLE_SLIDE_DECK) IN
       /\ slideDeck' = IF deck.ok THEN deck.value ELSE slideDeck
       /\ error' = IF deck.ok THEN NoError
                   ELSE IF deck.error.name = "ValidationError"
                   THEN formatValidationError(deck.error)
                   ELSE formatOtherError(deck.error)
    /\ isLoading' = FALSE
    /\ UNCHANGED <<isPasteModalOpen, pasteContent, upload, rendererVars,
                 restVars>>

\* handleFileUpload up to its await of file.text(), for a chosen file
HandleFileUpload(name, content) ==
    /\ Screen = "welcome"
    /\ upload = NoUpload
    /\ isLoading' = TRUE
    /\ error' = NoError
    /\ upload' = [name |-> name, content |-> content]
    /\ UNCHANGED <<slideDeck, isPasteModalOpen, pasteContent, rendererVars,
                 restVars>>

FileTextSettles_NoFinally(readable) ==
    /\ upload # NoUpload
    /\ LET deck == IF readable THEN LoadFile(upload.name, upload.content)
                   ELSE Throw(NotReadable)
       IN /\ slideDeck' = IF deck.ok THEN deck.value ELSE slideDeck
          /\ error' = IF deck.ok THEN error ELSE FileError(deck.error)
          /\ isLoading' = IF deck.ok THEN FALSE ELSE isLoading
    /\ upload' = NoUpload
    /\ UNCHANGED <<isPasteModalOpen, pasteContent, rendererVars,
                 restVars>>

\* handleFileUpload from the await on: the text is read, or the read fails
FileTextSettles(readable) ==
    /\ upload # NoUpload
    /\ LET deck == IF readable THEN LoadFile(upload.name, upload.content)
                   ELSE Throw(NotReadable)
       IN /\ slideDeck' = IF deck.ok THEN deck.value ELSE slideDeck
          /\ error' = IF deck.ok THEN error ELSE FileError(deck.error)
    /\ isLoading' = FALSE
    /\ upload' = NoUpload
    /\ UNCHANGED <<isPasteModalOpen, pasteContent, rendererVars,
                 restVars>>

\* handleLoadFromText
HandleLoadFromText ==
    /\ Screen = "welcome"
    /\ isPasteModalOpen' = TRUE
    /\ UNCHANGED <<slideDeck, error, isLoading, pasteContent, upload, rendererVars,
                 restVars>>

\* the textarea's onChange
SetPasteContent(content) ==
    /\ Screen = "welcome"
    /\ isPasteModalOpen
    /\ pasteContent' = content
    /\ UNCHANGED <<slideDeck, error, isLoading, isPasteModalOpen, upload, rendererVars,
                 restVars>>

\* the modal's close and Cancel buttons
ClosePasteModal ==
    /\ Screen = "welcome"
    /\ isPasteModalOpen
    /\ isPasteModalOpen' = FALSE
    /\ UNCHANGED <<slideDeck, error, isLoading, pasteContent, upload, rendererVars,
                 restVars>>

\* processPastedContent, behind Generate Slides: nothing happens on a blank
\* text; else the modal closes and the text is loaded
ProcessPastedContent ==
    /\ Screen = "welcome"
    /\ isPasteModalOpen
    /\ IF Trim(pasteContent) = <<>>
       THEN UNCHANGED <<slideDeck, error, isLoading, isPasteModalOpen, pasteContent>>
       ELSE /\ isPasteModalOpen' = FALSE
            /\ LET deck == LoadPasted(pasteContent) IN
               /\ slideDeck' = IF deck.ok THEN deck.value ELSE slideDeck
               /\ pasteContent' = IF deck.ok THEN <<>> ELSE pasteContent
               /\ error' = IF deck.ok THEN NoError ELSE PasteError(deck.error)
            /\ isLoading' = FALSE
    /\ UNCHANGED <<upload, rendererVars,
                 restVars>>

\* the error screen's Dismiss
DismissError ==
    /\ Screen = "error"
    /\ error' = NoError
    /\ UNCHANGED <<slideDeck, isLoading, isPasteModalOpen, pasteContent, upload, rendererVars,
                 restVars>>

\* the renderer's onClose
CloseSlides ==
    /\ Screen = "slides"
    /\ slideDeck' = JNull
    /\ currentSlideIndex' = 0
    /\ isPresenterMode' = FALSE
    /\ isDarkMode' = FALSE
    /\ UNCHANGED <<error, isLoading, isPasteModalOpen, pasteContent, upload, restVars>>

NextApp ==
    \/ LoadExampleDeck
    \/ \E name \in FileNames, content \in Texts : HandleFileUpload(name, content)
    \/ \E readable \in BOOLEAN : FileTextSettles(readable)
    \/ HandleLoadFromText
    \/ \E content \in Texts : SetPasteContent(content)
    \/ ClosePasteModal
    \/ ProcessPastedContent
    \/ DismissError
    \/ CloseSlides

SpecApp == Init /\ [][NextApp]_vars

(***************************************************************************)
(* Properties of the App                                                   *)
(***************************************************************************)
\* what the load paths can hand to validateSlideDeck: the example deck, and
\* what JSON.parse and parseLatexLite make of the texts
Loadable ==
    {EXAMPLE_SLIDE_DECK}
    \cup { JSONParse(t).value : t \in { u \in Texts : JSONParse(u).ok } }
    \cup { parseLatexLite(t).value : t \in { u \in Texts : parseLatexLite(u).ok } }

\* the decks validateSlideDeck returns on them
ValidatorResults ==
    { validateSlideDeck(d).value : d \in { c \in Loadable : validateSlideDeck(c).ok } }

\* C15: in every reachable state of the App, the slideDeck handed to the
\* renderer is null or a value validateSlideDeck returned; nothing parsed is
\* stored without having passed through the validator
C15_DeckIsValidated == slideDeck = JNull \/ slideDeck \in ValidatorResults

\* the renderer shows a pasted or uploaded JSON deck from which validation
\* removed a key, so what is stored is the validator's result and not what
\* JSON.parse returned
C15_Witness ==
    /\ Screen = "slides"
    /\ slideDeck = validateSlideDeck(JSONParse(DeckExtraText).value).value
    /\ slideDeck # JSONParse(DeckExtraText).value
    /\ pasteContent = LatexDeckText

\* texts that are JSON and whose value validateSlideDeck rejects
FailsValidation(text) ==
    JSONParse(text).ok /\ ~validateSlideDeck(JSONParse(text).value).ok

\* the steps that finish loading text: as the read content of a file whose
\* extension is json, and as the pasted content
UploadedAsJson(text) ==
    /\ FileTextSettles(TRUE)
    /\ upload.content = text
    /\ Extension(upload.name) = S_json
Pasted(text) == ProcessPastedContent /\ pasteContent = text

\* C16: when an uploaded .json file or the pasted text is valid JSON that
\* fails schema validation, the error shown is the formatted ValidationError
\* of that value, with its path-qualified issues, and never a ParserError
C16_InvalidJsonShowsValidationError ==
    [][\A text \in Texts :
         FailsValidation(text) /\ (UploadedAsJson(text) \/ Pasted(text))
         => error' = formatValidationError(
                         validateSlideDeck(JSONParse(text).value).error)]_vars

Titles ==
    { <<"M", "y", " ", "S", "l", "i", "d", "e">>,
      <<"m", "y", " ", " ", "s", "l", "i", "d", "e">>,
      <<"M", "Y", "\t", "S", "l", "i", "d", "e">>,
      <<"A", "-", "1", "!">>,
      <<"Q", "&", "A", " ", "2">>,
      <<"a", "\n", "b">>,
      <<"x", "_", "{", "1", "}">>,
      <<" ", "x", " ">>,
      <<"-", " ", "-">>,
      <<>> }

MaxTitled == 2

\* one more \slide{title}{} is written
TypeSlide(title) ==
    /\ parsed = NotParsed
    /\ Len(typed) < MaxTitled
    /\ typed' = Append(typed, Cmd(S_slide) \o Braces(title) \o <<"{", "}">>)
    /\ UNCHANGED <<parsed, tokenizer, validatorVars, history, appVars>>

NextTitles ==
    \/ \E title \in Titles : TypeSlide(title)
    \/ ParseLatexLite

SpecTitles == Init /\ [][NextTitles]_vars

(***************************************************************************)
(* Properties of the slide ids                                             *)
(***************************************************************************)
IdChars == Range(LowerCaseLetters) \cup Digits \cup {"-"}

\* the lower-case form of one character
LowerOf(c) ==
    IF \E k \in 1..26 : UpperCaseLetters[k] = c
    THEN LowerCaseLetters[CHOOSE k \in 1..26 : UpperCaseLetters[k] = c]
    ELSE c

\* what position i of a title contributes to the id: a hyphen where a
\* whitespace run starts, nothing for the rest of the run and for a character
\* outside a-z, 0-9 and hyphen, and else the lower-cased character
IdPart(title, i) ==
    IF title[i] \in JsWhiteSpace
    THEN (IF i > 1 /\ title[i - 1] \in JsWhiteSpace THEN <<>> ELSE <<"-">>)
    ELSE IF LowerOf(title[i]) \in IdChars THEN <<LowerOf(title[i])>>
    ELSE <<>>

Normalized(title) == Flatten([i \in 1..Len(title) |-> IdPart(title, i)])

TitleOf(slide) == slide.props.title.str
IdOf(slide) == slide.props.id.str

HasStringId(slide) == IsObj(slide) /\ HasKey(slide, "id") /\ IsStr(slide.props.id)

HasEmptyId(deck) ==
    \E i \in 1..Len(SlidesOf(deck)) :
        HasStringId(SlidesOf(deck)[i]) /\ IdOf(SlidesOf(deck)[i]) = <<>>

\* every slide of the accepted deck carries the id the candidate gave it
IdsVerbatim ==
    /\ Len(SlidesOf(validated.value)) = Len(SlidesOf(candidate))
    /\ \A i \in 1..Len(SlidesOf(candidate)) :
          validated.value.props.slides.items[i].props.id
            = candidate.props.slides.items[i].props.id

\* C19: validateSlideDeck checks a slide's id for being a non-empty string
\* and nothing more: a candidate with a slide whose id is the empty string is
\* rejected with a ValidationError, and a candidate without any fault whose
\* ids are non-empty is accepted with every id verbatim, also when two of its
\* slides have the same id
C19_IdNonEmptyVerbatim ==
    Validated =>
      /\ HasEmptyId(candidate) =>
            (~validated.ok /\ validated.error.name = "ValidationError")
      /\ (DeckFaults(candidate) = <<>> /\ ~HasEmptyId(candidate)) =>
            (validated.ok /\ IdsVerbatim)

(***************************************************************************)
(* Tokenizer.tokenize, one iteration of its loop at a time                 *)
(***************************************************************************)
TokenizerChars == {"\\", "{", "}", "[", "]", "a", " ", "\f", "\n"}

MaxInput == 3

\* every string of at most MaxInput of these characters
Inputs == UNION { [1..n -> TokenizerChars] : n \in 0..MaxInput }

InitTokenize ==
    /\ typed = <<>>
    /\ parsed = NotParsed
    /\ candidate = JNull
    /\ validated = NotValidated
    /\ revalidated = NotValidated
    /\ history = <<>>
    /\ tokenizer \in { NewTokenizer(input) : input \in Inputs }
    /\ AppInit

\* the body of the while loop, entered with pos < input.length: the cursor
\* and the token list it leaves
tokenizeIteration(input, t0, tokens) ==
    LET t == skipWhitespace(input, t0) IN
    IF t.pos >= Len(input) THEN [cursor |-> t, tokens |-> tokens]
    ELSE IF Tokenizer_peek(input, t) = "\\"
    THEN [cursor |-> readCommand(input, t).t,
          tokens |-> Append(tokens, Token("COMMAND", readCommand(input, t).value,
                                          t.line, t.column))]
    ELSE IF Tokenizer_peek(input, t) \in {"{", "}", "[", "]", "\n"}
    THEN [cursor |-> Tokenizer_advance(input, t),
          tokens |-> Append(tokens,
                            Token(SingleCharToken(Tokenizer_peek(input, t)),
                                  <<Tokenizer_peek(input, t)>>, t.line, t.column))]
    ELSE [cursor |-> readText(input, t).t,
          tokens |-> IF readText(input, t).value # <<>>
                     THEN Append(tokens, Token("TEXT", readText(input, t).value,
                                               t.line, t.column))
                     ELSE tokens]

\* one iteration of the loop
TokenizeIteration ==
    /\ ~tokenizer.returned
    /\ tokenizer.cursor.pos < Len(tokenizer.input)
    /\ tokenizer' =
         [tokenizer EXCEPT
            !.cursor = tokenizeIteration(tokenizer.input, tokenizer.cursor,
                                         tokenizer.tokens).cursor,
            !.tokens = tokenizeIteration(tokenizer.input, tokenizer.cursor,
                                         tokenizer.tokens).tokens]
    /\ UNCHANGED <<typed, parsed, validatorVars, history, appVars>>

\* the loop is left: the EOF token is pushed and the tokens are returned
TokenizeReturn ==
    /\ ~tokenizer.returned
    /\ ~(tokenizer.cursor.pos < Len(tokenizer.input))
    /\ tokenizer' =
         [tokenizer EXCEPT
            !.tokens = Append(@, Token("EOF", <<>>, tokenizer.cursor.line,
                                       tokenizer.cursor.column)),
            !.returned = TRUE]
    /\ UNCHANGED <<typed, parsed, validatorVars, history, appVars>>

NextTokenize == TokenizeIteration \/ TokenizeReturn

\* tokenize() runs on its own: an iteration or the return that is possible
\* is taken
SpecTokenize == InitTokenize /\ [][NextTokenize]_vars /\ WF_vars(NextTokenize)

(***************************************************************************)
(* Properties of Tokenizer.tokenize                                        *)
(***************************************************************************)
\* the returned tokens: one EOF token, at the end, with the line and column
\* of the end of the input
EndsWithOneEof ==
    LET tokens == tokenizer.tokens
        input == tokenizer.input
    IN /\ tokens # <<>>
       /\ tokens[Len(tokens)].type = "EOF"
       /\ \A i \in 1..(Len(tokens) - 1) : tokens[i].type # "EOF"
       /\ tokens[Len(tokens)].line = LineAt(input, Len(input))
       /\ tokens[Len(tokens)].column = ColumnAt(input, Len(input))
       /\ tokens = tokenize(input)

\* C20: tokenize is total and terminating: on every input (the empty
\* string, a bare trailing backslash and unbalanced braces included) each
\* iteration of its loop consumes at least one character and it returns; the
\* returned sequence holds exactly one EOF token, as its last element, with
\* the line and column reached at the end of the input
C20_TokenizeTotal ==
    /\ [][~tokenizer'.returned =>
             tokenizer'.cursor.pos > tokenizer.cursor.pos]_vars
    /\ <>tokenizer.returned
    /\ [](tokenizer.returned => EndsWithOneEof)

\* tokenize has returned on an unclosed brace, a line break and a bare
\* backslash: four tokens, the EOF on line 2 and column 2
C20_Witness ==
    /\ tokenizer.returned
    /\ tokenizer.input = <<"{", "\n", "\\">>
    /\ Len(tokenizer.tokens) = 4
    /\ tokenizer.tokens[3] = Token("COMMAND", <<>>, 2, 1)
    /\ tokenizer.tokens[4] = Token("EOF", <<>>, 2, 2)

\* the 0-based offset of the character on this line and in this column
OffsetOf(input, line, column) ==
    CHOOSE o \in 0..Len(input) :
        LineAt(input, o) = line /\ ColumnAt(input, o) = column

HasOffset(input, line, column) ==
    \E o \in 0..Len(input) :
        LineAt(input, o) = line /\ ColumnAt(input, o) = column

\* the characters a token stands for: a command's backslash and name, else
\* the token's value
TokenText(token) ==
    IF token.type = "COMMAND" THEN <<"\\">> \o token.value ELSE token.value

\* C21: every non-EOF token's (line, column) is the 1-based position in the
\* source of the first character of the token (for TEXT, of its trimmed
\* value), lines counted by the \n before it and columns from the last \n,
\* and the positions of the tokens increase strictly in source order
C21_TokenPositions ==
    tokenizer.returned =>
      LET tokens == tokenizer.tokens
          input == tokenizer.input
          at(i) == OffsetOf(input, tokens[i].line, tokens[i].column)
      IN /\ \A i \in 1..(Len(tokens) - 1) :
               /\ HasOffset(input, tokens[i].line, tokens[i].column)
               /\ IsPrefixAt(input, at(i) + 1, TokenText(tokens[i]))
         /\ \A i \in 1..(Len(tokens) - 2) : at(i) < at(i + 1)

(***************************************************************************)
(* The parser on a sequence of top-level items                             *)
(***************************************************************************)
TitleDirective(body) == Cmd(S_title) \o Braces(body)
SlideDirective(title, body) == Cmd(S_slide) \o Braces(title) \o Braces(body)

\* T, a padded "My D", a title with an inner group between blanks, and the
\* empty title
TitleBodies ==
    { <<"T">>, <<" ", "M", "y", " ", "D", " ">>,
      <<"a", " ", "{", "b", "}", " ", "c">>, <<>> }

\* \slide{A}{hi}, \slide{B}{\foo{x}} and \slide{C}{}
SlideASrc == SlideDirective(<<"A">>, TextSrc)
SlideBSrc == SlideDirective(<<"B">>, UnknownSrc)
SlideCSrc == SlideDirective(<<"C">>, <<>>)

TitleItems == { TitleDirective(body) : body \in TitleBodies }
SlideItems == {SlideASrc, SlideBSrc, SlideCSrc}

\* what may not stand at the top level: text, a brace, a bracket and a
\* command other than \slide and \title
StrayItems == {TextSrc, <<"{">>, <<"}">>, <<"[">>, <<"]">>, UnknownSrc}

TopItems == TitleItems \cup SlideItems \cup StrayItems \cup {NewlineSrc, SpaceSrc}

MaxItems == 3

TypeItem(f) ==
    /\ parsed = NotParsed
    /\ Len(typed) < MaxItems
    /\ typed' = Append(typed, f)
    /\ UNCHANGED <<parsed, tokenizer, validatorVars, history, appVars>>

NextTop ==
    \/ \E f \in TopItems : TypeItem(f)
    \/ ParseLatexLite

SpecTop == Init /\ [][NextTop]_vars

(***************************************************************************)
(* Properties of the top level of a source                                 *)
(***************************************************************************)
\* the positions of typed that hold a \title directive
TitlePositions == { i \in 1..Len(typed) : typed[i] \in TitleItems }

\* the brace content of the last \title directive written
LastTitleBody ==
    LET last == CHOOSE i \in TitlePositions : \A j \in TitlePositions : j <= i
    IN CHOOSE body \in TitleBodies : typed[last] = TitleDirective(body)

\* C22: the returned deck's meta.title is the trimmed brace content of the
\* last \title directive of the source, and "Untitled Deck" when the source
\* has none; meta holds no author and no date
C22_DeckTitle ==
    (Parsed /\ parsed.ok) =>
      /\ DOMAIN parsed.value.props.meta.props = {"title"}
      /\ parsed.value.props.meta.props.title =
            JStr(IF TitlePositions = {} THEN S_UntitledDeck
                 ELSE Trim(LastTitleBody))

\* the positions of typed that hold an item the top level does not allow
StrayPositions == { i \in 1..Len(typed) : typed[i] \in StrayItems }
FirstStray == CHOOSE i \in StrayPositions : \A j \in StrayPositions : i <= j

\* the token kind of an item that is one token
TokenKind(f) ==
    CASE f = TextSrc -> "TEXT"
      [] f = <<"{">> -> "LBRACE"
      [] f = <<"}">> -> "RBRACE"
      [] f = <<"[">> -> "LBRACKET"
      [] f = <<"]">> -> "RBRACKET"

\* typed without its line breaks
WithoutNewlines == SelectSeq(typed, LAMBDA f : f # NewlineSrc)

\* C23: at the top level NEWLINE tokens are skipped without effect, and a
\* TEXT, brace or bracket token outside a directive's arguments makes
\* parseLatexLite raise a ParserError that names the token's kind and has
\* its line and column; no deck is returned
C23_TopLevelTokens ==
    Parsed =>
      IF StrayPositions = {}
      THEN /\ parsed.ok
           /\ parsed.value = parseLatexLite(Flatten(WithoutNewlines)).value
      ELSE typed[FirstStray] # UnknownSrc =>
             LET p == Len(Flatten(SubSeq(typed, 1, FirstStray - 1))) IN
             parsed = [ok |-> FALSE,
                       error |->
                         ParserError("Unexpected token at top level: "
                                       \o TokenKind(typed[FirstStray]),
                                     <<>>, "", LineAt(Source, p), ColumnAt(Source, p))]

\* a closing brace after a line break and a blank: the error names
\* RBRACE on line 2, column 2
C23_Witness ==
    /\ Parsed
    /\ typed = <<NewlineSrc, SpaceSrc, <<"}">>>>
    /\ ~parsed.ok
    /\ parsed.error.message.prefix = "Unexpected token at top level: RBRACE"
    /\ parsed.error.line = 2
    /\ parsed.error.column = 2

\* the \slide directives written, in order, and typed without them
SlidesWritten == SelectSeq(typed, LAMBDA f : f \in SlideItems)
WithoutSlides == SelectSeq(typed, LAMBDA f : f \notin SlideItems)

\* the title written in a \slide directive
TitleWritten(f) ==
    CASE f = SlideASrc -> <<"A">>
      [] f = SlideBSrc -> <<"B">>
      [] f = SlideCSrc -> <<"C">>

\* C24: a source that parses successfully gives exactly one slide per
\* top-level \slide directive, in source order; the parser resumes right
\* after a slide's second brace group, so every slide is the slide its own
\* directive gives, and the deck title is what the source without its slides
\* gives
C24_OneSlidePerDirective ==
    Parsed =>
      /\ parsed.ok <=> StrayPositions = {}
      /\ parsed.ok =>
           /\ Len(Slides(parsed.value)) = Len(SlidesWritten)
           /\ \A k \in 1..Len(SlidesWritten) :
                /\ TitleOf(Slides(parsed.value)[k]) = TitleWritten(SlidesWritten[k])
                /\ Slides(parsed.value)[k]
                     = Slides(parseLatexLite(SlidesWritten[k]).value)[1]
           /\ parsed.value.props.meta
                = parseLatexLite(Flatten(WithoutSlides)).value.props.meta

\* \slide{A}{hi}, \title{T} and \slide{C}{} give the slides A, with the text
\* hi, and C, without content, and the title T
C24_Witness ==
    /\ Parsed
    /\ typed = <<SlideASrc, TitleDirective(<<"T">>), SlideCSrc>>
    /\ parsed.ok
    /\ Len(Slides(parsed.value)) = 2
    /\ TitleOf(Slides(parsed.value)[1]) = <<"A">>
    /\ Content(Slides(parsed.value)[1]) = <<TextJson>>
    /\ TitleOf(Slides(parsed.value)[2]) = <<"C">>
    /\ Content(Slides(parsed.value)[2]) = <<>>
    /\ parsed.value.props.meta.props.title = JStr(<<"T">>)

(***************************************************************************)
(* Properties of an equation's bracket parameter                           *)
(***************************************************************************)
\* typed = \equation, a closed bracket parameter that is none of the three
\* animate modes, and a brace group
IsEquationWithOtherParameter ==
    /\ Len(typed) = 3
    /\ typed[1] = EquationCmdSrc
    /\ typed[2] \in {AnimateSrc(S_xyz), BracketFooSrc}
    /\ IsBraceGroup(typed[3])

\* C25: an \equation whose closed bracket parameter does not match
\* animate=(none|reveal|highlight) raises no error and gives one equation
\* node with animate = "none" and latex equal to the following brace group
C25_OtherParameterIgnored ==
    (Parsed /\ IsEquationWithOtherParameter) =>
        /\ parsed.ok
        /\ parsed.value =
             <<JObj([type |-> JStr(S_equation),
                     latex |-> JStr(Trim(Inner(typed[3]))),
                     animate |-> JStr(S_none)])>>

(***************************************************************************)
(* Properties of a source with several grammar violations                  *)
(***************************************************************************)
\* the positions of typed that hold a grammar violation: a stray item, and
\* the slide whose body has the unknown command \foo
ViolationPositions ==
    { i \in 1..Len(typed) : typed[i] \in StrayItems \cup {SlideBSrc} }
FirstViolation ==
    CHOOSE i \in ViolationPositions : \A j \in ViolationPositions : i <= j

\* the message of the error for a violating item
ViolationMessage(f) ==
    IF f = SlideBSrc
    THEN [prefix |-> "Unknown command: \\", value |-> S_foo, suffix |-> ""]
    ELSE IF f = UnknownSrc
    THEN [prefix |-> "Unexpected command at top level: \\", value |-> S_foo,
          suffix |-> ". Only \\slide and \\title are allowed."]
    ELSE [prefix |-> "Unexpected token at top level: " \o TokenKind(f),
          value |-> <<>>, suffix |-> ""]

\* C26: parseLatexLite returns a complete deck or raises one ParserError and
\* returns nothing; with several grammar violations in the source the error
\* is the one for the first violating token in source order, and what follows
\* that token has no part in the outcome
C26_FirstErrorWins ==
    Parsed =>
      /\ \/ parsed.ok /\ DOMAIN parsed = {"ok", "value"}
         \/ ~parsed.ok /\ DOMAIN parsed = {"ok", "error"}
                       /\ parsed.error.name = "ParserError"
      /\ parsed.ok <=> ViolationPositions = {}
      /\ ViolationPositions # {} =>
           /\ parsed.error.message = ViolationMessage(typed[FirstViolation])
           /\ parsed = parseLatexLite(Flatten(SubSeq(typed, 1, FirstViolation)))

(***************************************************************************)
(* SlideRenderer: the slide index, presenter mode and dark mode            *)
(***************************************************************************)
\* const { slides } = slideDeck, of the deck the App mounted the renderer on
RendererSlides == Slides(slideDeck)
MathMin(a, b) == IF a < b THEN a ELSE b
MathMax(a, b) == IF a > b THEN a ELSE b

\* nextSlide(), behind ArrowRight, Space and, where currentSlideIndex <
\* slides.length - 1 draws it, the right arrow button
NextSlide ==
    /\ Screen = "slides"
    /\ currentSlideIndex' =
         MathMin(currentSlideIndex + 1, Len(RendererSlides) - 1)
    /\ UNCHANGED <<isPresenterMode, isDarkMode, slideDeck, error, isLoading,
                   isPasteModalOpen, pasteContent, upload, restVars>>

\* prevSlide(), behind ArrowLeft and, where currentSlideIndex > 0 draws it,
\* the left arrow button
PrevSlide ==
    /\ Screen = "slides"
    /\ currentSlideIndex' = MathMax(currentSlideIndex - 1, 0)
    /\ UNCHANGED <<isPresenterMode, isDarkMode, slideDeck, error, isLoading,
                   isPasteModalOpen, pasteContent, upload, restVars>>

\* the Home key: setCurrentSlideIndex(0)
Home ==
    /\ Screen = "slides"
    /\ currentSlideIndex' = 0
    /\ UNCHANGED <<isPresenterMode, isDarkMode, slideDeck, error, isLoading,
                   isPasteModalOpen, pasteContent, upload, restVars>>

\* the End key: setCurrentSlideIndex(slides.length - 1)
End ==
    /\ Screen = "slides"
    /\ currentSlideIndex' = Len(RendererSlides) - 1
    /\ UNCHANGED <<isPresenterMode, isDarkMode, slideDeck, error, isLoading,
                   isPasteModalOpen, pasteContent, upload, restVars>>

\* the p and P keys and the presenter button
TogglePresenterMode ==
    /\ Screen = "slides"
    /\ isPresenterMode' = ~isPresenterMode
    /\ UNCHANGED <<currentSlideIndex, isDarkMode, slideDeck, error, isLoading,
                   isPasteModalOpen, pasteContent, upload, restVars>>

\* toggleDarkMode(), behind the d and D keys and the dark mode button
ToggleDarkMode ==
    /\ Screen = "slides"
    /\ isDarkMode' = ~isDarkMode
    /\ UNCHANGED <<currentSlideIndex, isPresenterMode, slideDeck, error,
                   isLoading, isPasteModalOpen, pasteContent, upload, restVars>>

NextRenderer ==
    \/ NextApp
    \/ NextSlide
    \/ PrevSlide
    \/ Home
    \/ End
    \/ TogglePresenterMode
    \/ ToggleDarkMode

SpecRenderer == Init /\ [][NextRenderer]_vars

\* C27: while the renderer is mounted on a deck of n slides, whatever keys
\* and arrow buttons were used, 0 <= currentSlideIndex <= max(n - 1, 0).
C27_IndexInBounds ==
    Screen = "slides" =>
        /\ 0 <= currentSlideIndex
        /\ currentSlideIndex <= MathMax(Len(RendererSlides) - 1, 0)

(***************************************************************************)
(* The parser's output handed to the validator                             *)
(***************************************************************************)
\* slide bodies: each directive alone, \equation with each bracket
\* parameter, an algorithm without steps, text, text on two lines, blanks,
\* a form feed, a group with inner braces, nothing, and an unknown command
SlideBodies ==
    Directives
    \cup { EquationCmdSrc \o AnimateSrc(mode) \o LatexSrc :
             mode \in {S_none, S_reveal, S_highlight, S_xyz} }
    \cup { EquationCmdSrc \o BracketFooSrc \o LatexSrc,
           AlgorithmCmdSrc \o BlobEmptySrc,
           TextSrc, TextSrc \o NewlineSrc \o TextSrc \o NoteSrc,
           <<" ", "\t", " ">>, <<"\f">>, <<"\f", "a", " ">>,
           ProofCmdSrc \o GroupSpacedSrc, <<>>, UnknownSrc }

DeckItems ==
    { SlideDirective(<<"S", " ", "1">>, body) : body \in SlideBodies }
    \cup { TitleDirective(<<"T">>), NewlineSrc }

MaxDeckItems == 2

TypeDeckItem(f) ==
    /\ parsed = NotParsed
    /\ Len(typed) < MaxDeckItems
    /\ typed' = Append(typed, f)
    /\ UNCHANGED <<parsed, tokenizer, validatorVars, history, appVars>>

\* validateSlideDeck(deck) of the deck parseLatexLite returned
ValidateParsed ==
    /\ Parsed /\ parsed.ok
    /\ validated = NotValidated
    /\ candidate' = parsed.value
    /\ validated' = validateSlideDeck(parsed.value)
    /\ UNCHANGED <<parserVars, revalidated, history, appVars>>

NextPipeline ==
    \/ \E f \in DeckItems : TypeDeckItem(f)
    \/ ParseLatexLite
    \/ ValidateParsed

SpecPipeline == Init /\ [][NextPipeline]_vars

\* the keys a node of type t has when it has every field of its variant but
\* the optional strings
ConstructedKeys(t) == NodeKeys(t) \ Range(OptionalStrings(t))

\* a content node as the node constructors are said to build it
ConstructedNode(node) ==
    /\ WellTypedNode(node)
    /\ DOMAIN node.props = ConstructedKeys(KnownType(node))
    /\ KnownType(node) = S_text => node.props.content.str # <<>>
    /\ KnownType(node) = S_equation =>
          node.props.animate \in {JStr(S_none), JStr(S_reveal), JStr(S_highlight)}

ConstructedSlide(slide) ==
    /\ WellTypedSlide(slide)
    /\ DOMAIN slide.props = SlideKeys
    /\ \A j \in 1..Len(slide.props.content.items) :
          ConstructedNode(slide.props.content.items[j])

ConstructedDeck(deck) ==
    /\ WellTypedDeck(deck)
    /\ \A i \in 1..Len(deck.props.slides.items) :
          ConstructedSlide(deck.props.slides.items[i])

\* the bodies of the slides written, the nodes parseContent builds from a
\* body as it is written, and a deck of one slide holding them
WrittenBodies ==
    { body \in SlideBodies :
        \E i \in 1..Len(typed) :
           typed[i] = SlideDirective(<<"S", " ", "1">>, body) }

BodyNodes(body) ==
    LET nodes(content) == IF content.ok THEN content.value ELSE <<>>
    IN nodes(parseContent(tokenize(body)))

DeckOfNodes(nodes) ==
    JObj([meta |-> JObj([title |-> JStr(<<"T">>)]),
          slides |-> JArr(<<JObj([type |-> JStr(S_slide),
                                  id |-> JStr(SlideId(<<"S", " ", "1">>)),
                                  title |-> JStr(<<"S", " ", "1">>),
                                  content |-> JArr(nodes)])>>)])

\* C28: a deck returned by parseLatexLite has slides of type "slide" with
\* string id and title, nodes of the eight variants with exactly their
\* fields, text nodes with non-empty content and equations with animate in
\* none, reveal, highlight; validateSlideDeck accepts it and returns a deck
\* equal to it.  The same holds of the nodes the node constructors build
\* from each slide body as it is written.
C28_ParsedDeckIsValid ==
    (Parsed /\ parsed.ok) =>
        /\ ConstructedDeck(parsed.value)
        /\ Validated => (validated.ok /\ validated.value = parsed.value)
        /\ \A body \in WrittenBodies :
              /\ ConstructedDeck(DeckOfNodes(BodyNodes(body)))
              /\ validateSlideDeck(DeckOfNodes(BodyNodes(body)))
                   = [ok |-> TRUE, value |-> DeckOfNodes(BodyNodes(body))]

\* a deck with a text node cut out of "\f a " and the text nodes left of an
\* \equation[animate=xyz]{x^2} has been validated, and the equation is an
\* equation node with animate none when its body is parsed as written
C28_Witness ==
    /\ Parsed /\ parsed.ok /\ Validated
    /\ typed = << SlideDirective(<<"S", " ", "1">>, <<"\f", "a", " ">>),
                  SlideDirective(<<"S", " ", "1">>,
                                 EquationCmdSrc \o AnimateSrc(S_xyz) \o LatexSrc) >>
    /\ ContentOf(SlidesOf(parsed.value)[1])
         = <<JObj([type |-> JStr(S_text), content |-> JStr(<<"a">>)])>>
    /\ BodyNodes(EquationCmdSrc \o AnimateSrc(S_xyz) \o LatexSrc)
         = <<JObj([type |-> JStr(S_equation), latex |-> JStr(<<"x", "^", "2">>),
                   animate |-> JStr(S_none)])>>

(***************************************************************************)
(* App: error and slideDeck                                                *)
(***************************************************************************)
\* a load starts: the file input's onChange
LoadStarts == \E name \in FileNames, content \in Texts : HandleFileUpload(name, content)

\* a load runs to its finally block
LoadCompletes ==
    \/ LoadExampleDeck
    \/ \E readable \in BOOLEAN : FileTextSettles(readable)
    \/ ProcessPastedContent

\* C29: error and slideDeck are never both non-null; a load starts and
\* completes only with slideDeck null before it; a completed load either
\* fails, leaving slideDeck null and setting error, or succeeds, setting
\* slideDeck and leaving error null.
C29_ErrorXorDeck ==
    /\ [](~(error # NoError /\ slideDeck # JNull))
    /\ [][LoadStarts => (slideDeck = JNull /\ slideDeck' = JNull /\ error' = NoError)]_vars
    /\ [][LoadCompletes =>
            /\ slideDeck = JNull
            /\ \/ slideDeck' = JNull /\ error' # NoError
               \/ slideDeck' # JNull /\ error' = NoError]_vars

\* a pasted text failed to load: its error is shown, no deck is set, and the
\* text is still in the closed modal
C29_Witness ==
    /\ error # NoError
    /\ slideDeck = JNull
    /\ ~isLoading
    /\ ~isPasteModalOpen
    /\ pasteContent = DeckFaultyText

(***************************************************************************)
(* App: the loading screen                                                 *)
(***************************************************************************)
\* the promise of file.text() settles, and the handler's continuation runs
SpecAppFair ==
    SpecApp /\ WF_vars(\E readable \in BOOLEAN : FileTextSettles(readable))

\* the pasted text is empty or white space only
BlankPaste == \A i \in 1..Len(pasteContent) : pasteContent[i] \in JsWhiteSpace

\* C30: whenever isLoading is true it is false again later; the handlers
\* that run to their end in one step, and the end of handleFileUpload, leave
\* isLoading false whether the load succeeded or failed; processPastedContent
\* on an empty or white-space-only text changes no state.
C30_LoadingEnds ==
    /\ isLoading ~> ~isLoading
    /\ [][LoadCompletes => isLoading' = FALSE]_vars
    /\ [][(ProcessPastedContent /\ BlankPaste) => UNCHANGED vars]_vars

\* a file read was rejected: its error is shown and the loading screen is
\* gone, with a blank text left in the paste modal
C30_Witness ==
    /\ error = FileError(NotReadable)
    /\ ~isLoading
    /\ upload = NoUpload
    /\ pasteContent = BlankText

====
